---- MODULE Spec2Model ----
(***************************************************************************)
(* The CASM two-pass assembler (casm::Assembler, src/src/assembler.cpp):   *)
(* assembleSource / assemble, the first pass collectSymbols, the second    *)
(* pass generateCode (processDirective, processInstruction,                *)
(* convertOperand, encodeInstruction), generateObject, and the             *)
(* AssemblyContext tables of sections, symbols and relocations.            *)
(*                                                                         *)
(* One behaviour assembles one source text, possibly several times on the  *)
(* same Assembler instance.  A pass handles one statement per step.        *)
(*                                                                         *)
(* Beside it, the components of the line-based front end that stand alone: *)
(* parseImmediate and parseMemoryRef (src/src/token.cpp), Parser::parseLine*)
(* (src/src/parser.cpp) and the CodeGenerator (src/src/codegen.cpp).  A    *)
(* behaviour of one of them hands it one input and records what it returns.*)
(***************************************************************************)
EXTENDS Integers, Sequences, FiniteSets, TLC

VARIABLES
    source,            \* the source text handed to assembleSource: a sequence of lines
    callsLeft,         \* how many more times assembleSource will be invoked
    pc,                \* "idle", "collectSymbols", "generateCode", "returned"
    statements,        \* the parsed statement list being assembled
    idx,               \* index of the next statement of the running pass
    m_sections,        \* AssemblyContext::m_sections: name -> Section
    m_symbols,         \* AssemblyContext::m_symbols: name -> Symbol
    m_relocations,     \* AssemblyContext::m_relocations
    m_currentSection,  \* AssemblyContext::m_currentSection
    m_errors,          \* Assembler::m_errors (lives as long as the Assembler)
    object,            \* the coil::Object of the AssemblyResult returned last
    emitted,           \* per statement of pass 2: section, offset before, bytes appended
    returns,           \* what each finished invocation returned: object and getErrors()
    allowUnresolvedSymbols,  \* Assembler::Options::allowUnresolvedSymbols
    sectionWalk,       \* the order in which a walk of m_sections visits names
    symbolWalk,        \* the order in which a walk of m_symbols visits names
    input,             \* what a front-end component is given: characters, tokens or lines
    outcome,           \* what the calls on that component returned, in order
    codegen            \* the CodeGenerator: initialized, symbols, sections, current section

vars == <<source, callsLeft, pc, statements, idx, m_sections, m_symbols,
          m_relocations, m_currentSection, m_errors, object, emitted, returns,
          allowUnresolvedSymbols, sectionWalk, symbolWalk, input, outcome, codegen>>

-----------------------------------------------------------------------------
(* Bounds of the model.                                                     *)

MaxStmts == 3
MaxCalls == 2
MaxBody == 3
MaxTokens == 5
\* The most lines handed to a CodeGenerator.
MaxLines == 3

-----------------------------------------------------------------------------
(* Finite maps keyed by name (std::unordered_map<std::string, T>).          *)

EmptyMap == <<>>

Put(m, k, v) == [x \in (DOMAIN m) \cup {k} |-> IF x = k THEN v ELSE m[x]]

Has(m, k) == k \in DOMAIN m

-----------------------------------------------------------------------------
(* Byte arithmetic.  A C++ unsigned conversion of a signed value keeps the  *)
(* two's complement bits; byte i of v is floor(v / 256^i) mod 256.          *)

Pow256(i) == IF i = 0 THEN 1 ELSE IF i = 1 THEN 256 ELSE IF i = 2 THEN 65536 ELSE 16777216

\* Byte i (0 = least significant) of the two's complement form of v, for a
\* v that fits 32 bits: bytes 4..7 of a 64-bit conversion are the sign extension.
ByteOf(v, i) ==
    IF i <= 3 THEN (v \div Pow256(i)) % 256
    ELSE IF v < 0 THEN 255 ELSE 0

\* The same bytes, most significant first.
BigEndian(v, w) == [i \in 1..w |-> ByteOf(v, w - i)]

\* The w least significant bytes of v, least significant first.
LittleEndian(v, w) == [i \in 1..w |-> ByteOf(v, i - 1)]

Zeros(n) == [i \in 1..n |-> 0]

RECURSIVE BitOr(_, _)
\* a | b of two non-negative integers.
BitOr(a, b) ==
    IF a = 0 THEN b
    ELSE IF b = 0 THEN a
    ELSE (IF a % 2 = 1 \/ b % 2 = 1 THEN 1 ELSE 0) + 2 * BitOr(a \div 2, b \div 2)

-----------------------------------------------------------------------------
(* Text.  A string literal of the source is known by its bytes.             *)

StringBytes(s) ==
    CASE s = "Hi"    -> <<72, 105>>
      [] s = "A"     -> <<65>>
      [] s = ""      -> <<>>
      [] OTHER       -> <<63>>

\* std::transform(..., ::tolower) on the parameter names the model uses.
ToLower(s) ==
    CASE s = "Write"    -> "write"
      [] s = "WRITE"    -> "write"
      [] s = "Alloc"    -> "alloc"
      [] s = "Code"     -> "code"
      [] s = "NoBits"   -> "nobits"
      [] s = "ProgBits" -> "progbits"
      [] OTHER          -> s

\* A register name is its characters, e.g. <<"r", "1", "2">> for r12.
DigitValue(ch) ==
    CASE ch = "0" -> 0 [] ch = "1" -> 1 [] ch = "2" -> 2 [] ch = "3" -> 3
      [] ch = "4" -> 4 [] ch = "5" -> 5 [] ch = "6" -> 6 [] ch = "7" -> 7
      [] ch = "8" -> 8 [] ch = "9" -> 9 [] OTHER -> -1

RECURSIVE Stoul(_, _)
\* std::stoul: the leading decimal digits; -1 when there is none (it throws).
Stoul(chars, acc) ==
    IF chars = <<>> \/ DigitValue(Head(chars)) < 0
    THEN acc
    ELSE Stoul(Tail(chars), (IF acc < 0 THEN 0 ELSE acc) * 10 + DigitValue(Head(chars)))

-----------------------------------------------------------------------------
(* The statement AST handed to Assembler::assemble.                         *)

Operand(type, text, format, value, chars) ==
    [type |-> type, text |-> text, format |-> format, value |-> value, chars |-> chars]

RegisterOperand(chars) == Operand("Register", "", "", 0, chars)
IntegerOperand(v)      == Operand("Immediate", "", "Integer", v, <<>>)
StringOperand(s)       == Operand("Immediate", s, "String", 0, <<>>)
LabelOperand(name)     == Operand("Label", name, "", 0, <<>>)
MemoryOperand(chars, offset) == Operand("Memory", "", "", offset, chars)

Statement(type, label, name, params, operands) ==
    [type |-> type, label |-> label, name |-> name, params |-> params,
     operands |-> operands]

LabelStmt(label)                  == Statement("Label", label, "", <<>>, <<>>)
DirectiveStmt(label, name, ops)   == Statement("Directive", label, name, <<>>, ops)
InstructionStmt(label, name, params, ops) ==
    Statement("Instruction", label, name, params, ops)
EmptyStmt                         == Statement("Empty", "", "", <<>>, <<>>)

-----------------------------------------------------------------------------
(* AssemblyContext.  The operators below thread one record                  *)
(*   [sections, symbols, relocations, cur, errors, thrown]                  *)
(* through a handler: the context's tables, the diagnostics that            *)
(* Assembler::error appended so far, and the exception in flight (<<>> when *)
(* none).  A diagnostic is <<message, argument>>.                           *)

Raise(c, msg, arg) == [c EXCEPT !.errors = Append(@, <<msg, arg>>)]

\* A default-constructed Section, then the flags switchSection gives by name.
NewSection(name) ==
    LET dflt == [name |-> name, data |-> <<>>, currentOffset |-> 0,
                 type |-> "ProgBits", flags |-> {}]
    IN  CASE name = ".text"   -> [dflt EXCEPT !.flags = {"Code", "Alloc"}, !.type = "ProgBits"]
          [] name = ".data"   -> [dflt EXCEPT !.flags = {"Write", "Alloc"}, !.type = "ProgBits"]
          [] name = ".bss"    -> [dflt EXCEPT !.flags = {"Write", "Alloc"}, !.type = "NoBits"]
          [] name = ".rodata" -> [dflt EXCEPT !.flags = {"Alloc"}, !.type = "ProgBits"]
          [] OTHER            -> dflt

SwitchSection(c, name) ==
    [c EXCEPT !.cur = name,
              !.sections = IF Has(@, name) THEN @ ELSE Put(@, name, NewSection(name))]

EnsureSection(c, name) ==
    IF ~Has(c.sections, name) THEN SwitchSection(c, name) ELSE [c EXCEPT !.cur = name]

\* getCurrentSection(): the current section's record (it exists once a pass runs).
CurrentSection(c) == c.sections[c.cur]

\* A default-constructed Symbol.
DefaultSymbol ==
    [name |-> "", value |-> 0, section |-> "", type |-> "NoType",
     binding |-> "Local", defined |-> FALSE]

\* The Symbol collectSymbols builds for a label at the current offset.
LabelSymbol(c, label) ==
    [name |-> label, value |-> CurrentSection(c).currentOffset, section |-> c.cur,
     type |-> "NoType", binding |-> "Local", defined |-> TRUE]

AddSymbol(c, name, symbol) ==
    IF Has(c.symbols, name)
    THEN IF ~c.symbols[name].defined
         THEN [c EXCEPT !.symbols[name] = symbol]
         ELSE IF symbol.defined
              THEN [c EXCEPT !.thrown = <<"Assembly error: Symbol already defined: ", name>>]
              ELSE c
    ELSE [c EXCEPT !.symbols = Put(@, name, symbol)]

AddGlobalSymbol(c, name) ==
    LET sym == IF Has(c.symbols, name) THEN c.symbols[name] ELSE DefaultSymbol
    IN  [c EXCEPT !.symbols = Put(@, name, [sym EXCEPT !.name = name, !.binding = "Global"])]

AddRelocation(c, reloc) == [c EXCEPT !.relocations = Append(@, reloc)]

\* Section::addData / addByte: append and advance currentOffset.
AddData(c, bytes) ==
    [c EXCEPT !.sections[c.cur].data = @ \o bytes,
              !.sections[c.cur].currentOffset = @ + Len(bytes)]

\* A first pass that measures nothing.
NoAdvance(c, n) == c

Advance(c, n) == [c EXCEPT !.sections[c.cur].currentOffset = @ + n]

\* A second pass that leaves every symbol as pass 1 computed it.
KeepEstimate(c, label, isInstruction) == c

\* The pass-2 update of a label's symbol, when the symbol exists.
UpdateLabel(c, label, isInstruction) ==
    IF label # "" /\ Has(c.symbols, label)
    THEN [c EXCEPT !.symbols[label].value = CurrentSection(c).currentOffset,
                   !.symbols[label].defined = TRUE,
                   !.symbols[label].section = c.cur,
                   !.symbols[label].type = IF isInstruction THEN "Func" ELSE @]
    ELSE c

-----------------------------------------------------------------------------
(* Directives shared by the two passes (the code repeats them verbatim in   *)
(* collectSymbols and in processDirective).                                 *)

\* One trailing operand of a section directive: a kind or a flag.
SectionParameter(c, param) ==
    IF param.type # "Label"
    THEN Raise(c, "Section parameter must be a label reference", "")
    ELSE LET p == ToLower(param.text)
         IN  CASE p = "progbits" -> [c EXCEPT !.sections[c.cur].type = "ProgBits"]
               [] p = "nobits"   -> [c EXCEPT !.sections[c.cur].type = "NoBits"]
               [] p = "symtab"   -> [c EXCEPT !.sections[c.cur].type = "SymTab"]
               [] p = "strtab"   -> [c EXCEPT !.sections[c.cur].type = "StrTab"]
               [] p = "write"    -> [c EXCEPT !.sections[c.cur].flags = @ \cup {"Write"}]
               [] p = "code"     -> [c EXCEPT !.sections[c.cur].flags = @ \cup {"Code"}]
               [] p = "alloc"    -> [c EXCEPT !.sections[c.cur].flags = @ \cup {"Alloc"}]
               [] p = "merge"    -> [c EXCEPT !.sections[c.cur].flags = @ \cup {"Merge"}]
               [] p = "tls"      -> [c EXCEPT !.sections[c.cur].flags = @ \cup {"TLS"}]
               [] OTHER          -> Raise(c, "Unknown section parameter: ", param.text)

RECURSIVE SectionParameters(_, _, _)
SectionParameters(c, ops, i) ==
    IF i > Len(ops) THEN c
    ELSE SectionParameters(SectionParameter(c, ops[i]), ops, i + 1)

SectionDirective(c, ops) ==
    IF ops = <<>>
    THEN Raise(c, "Section directive requires a name operand", "")
    ELSE LET op == ops[1]
         IN  IF op.type \notin {"Label", "Immediate"}
             THEN Raise(c, "Section name must be a label reference or immediate value", "")
             ELSE LET sectionName ==
                          IF op.type = "Label" \/ op.format = "String"
                          THEN op.text
                          ELSE ToString(op.value)
                  IN  SectionParameters(SwitchSection(c, sectionName), ops, 2)

GlobalDirective(c, ops) ==
    IF ops = <<>>
    THEN Raise(c, "Global directive requires a label operand", "")
    ELSE IF ops[1].type # "Label"
         THEN Raise(c, "Global symbol must be a label reference", "")
         ELSE AddGlobalSymbol(c, ops[1].text)

\* alignment != 0 and (alignment & (alignment - 1)) == 0, for the small values used.
\* A test that lets every positive alignment through.
IsPositive(n) == n > 0

IsPowerOfTwo(n) == n \in {1, 2, 4, 8, 16, 32, 64, 128}

\* A padding without the outer modulo: a full unit when already aligned.
PaddingToNext(offset, alignment) == alignment - (offset % alignment)

Padding(offset, alignment) == (alignment - (offset % alignment)) % alignment

\* The element width in bytes of a data directive, 0 when it is none.
ElementSize(name) ==
    CASE name \in {"i8", "u8"}          -> 1
      [] name \in {"i16", "u16"}        -> 2
      [] name \in {"i32", "u32", "f32"} -> 4
      [] name \in {"i64", "u64", "f64"} -> 8
      [] OTHER                          -> 0

-----------------------------------------------------------------------------
(* Pass 1: collectSymbols, one statement.                                   *)

RECURSIVE CollectStrings(_, _, _, _)
\* The ascii/asciiz loop of pass 1 over the operands from i on.
CollectStrings(c, name, ops, i) ==
    IF i > Len(ops) THEN c
    ELSE LET op == ops[i]
             next ==
                 IF op.type # "Immediate"
                 THEN Raise(c, "String operand must be an immediate value", "")
                 ELSE IF op.format # "String"
                      THEN Raise(c, "String operand must be a string literal", "")
                      ELSE Advance(c, Len(StringBytes(op.text))
                                      + (IF name = "asciiz" THEN 1 ELSE 0))
         IN  CollectStrings(next, name, ops, i + 1)

CollectDirective(c, stmt) ==
    LET name == stmt.name
        ops  == stmt.operands
    IN  IF name = "section" THEN SectionDirective(c, ops)
        ELSE IF name = "global" THEN GlobalDirective(c, ops)
        ELSE IF ElementSize(name) > 0 THEN Advance(c, Len(ops) * ElementSize(name))
        ELSE IF name \in {"ascii", "asciiz"} THEN CollectStrings(c, name, ops, 1)
        ELSE IF name = "zero"
             THEN IF ops = <<>>
                  THEN Raise(c, "Zero directive requires a size operand", "")
                  ELSE IF ops[1].type # "Immediate"
                       THEN Raise(c, "Zero size must be an immediate value", "")
                       ELSE IF ops[1].format # "Integer"
                            THEN Raise(c, "Zero size must be an integer", "")
                            ELSE Advance(c, ops[1].value)
        ELSE IF name = "align"
             THEN IF ops = <<>>
                  THEN Raise(c, "Align directive requires an alignment operand", "")
                  ELSE IF ops[1].type # "Immediate"
                       THEN Raise(c, "Alignment must be an immediate value", "")
                       ELSE IF ops[1].format # "Integer"
                            THEN Raise(c, "Alignment must be an integer", "")
                            ELSE IF ~IsPowerOfTwo(ops[1].value)
                                 THEN Raise(c, "Alignment must be a power of 2", "")
                                 ELSE Advance(c, Padding(CurrentSection(c).currentOffset,
                                                         ops[1].value))
        \* Only a directive none of the branches above took reaches the label.
        ELSE IF stmt.label # ""
             THEN AddSymbol(c, stmt.label, LabelSymbol(c, stmt.label))
             ELSE c

\* The estimate of pass 1 for one instruction.
InstructionEstimate == 8

CollectStatement(c, stmt) ==
    CASE stmt.type = "Empty"     -> c
      [] stmt.type = "Label"     -> AddSymbol(c, stmt.label, LabelSymbol(c, stmt.label))
      [] stmt.type = "Directive" -> CollectDirective(c, stmt)
      [] stmt.type = "Instruction" ->
            LET d == IF stmt.label # ""
                     THEN AddSymbol(c, stmt.label, LabelSymbol(c, stmt.label))
                     ELSE c
            IN  IF d.thrown # <<>> THEN d ELSE Advance(d, InstructionEstimate)

-----------------------------------------------------------------------------
(* Values of the COIL library's enumerations (the library is not part of    *)
(* this source tree): mnemonics numbered in the order of the closed set,    *)
(* nop = 0x00; condition codes 1..6; operand kinds None..Mem = 0..3.        *)

Mnemonics ==
    <<"nop", "jmp", "br", "call", "ret", "load", "store", "push", "pop", "mov",
      "add", "sub", "mul", "div", "rem", "inc", "dec", "neg", "and", "or", "xor",
      "not", "shl", "shr", "sar", "cmp", "test", "cvt">>

OpcodeByte(name) == (CHOOSE i \in 1..Len(Mnemonics) : Mnemonics[i] = name) - 1

Flag0Byte(param) ==
    CASE param = "eq" -> 1 [] param = "neq" -> 2 [] param = "gt" -> 3
      [] param = "gte" -> 4 [] param = "lt" -> 5 [] param = "lte" -> 6
      [] OTHER -> 0

OperandTypeCode(type) ==
    CASE type = "None" -> 0 [] type = "Reg" -> 1 [] type = "Imm" -> 2
      [] type = "Mem" -> 3 [] OTHER -> 4

\* IEEE 754 bytes, least significant first, of the small integers a float
\* directive is given in the model.
Float32Bytes(v) ==
    CASE v = 1 -> <<0, 0, 128, 63>>
      [] v = 2 -> <<0, 0, 0, 64>>
      [] OTHER -> Zeros(4)

Float64Bytes(v) ==
    CASE v = 1 -> <<0, 0, 0, 0, 0, 0, 240, 63>>
      [] v = 2 -> <<0, 0, 0, 0, 0, 0, 0, 64>>
      [] OTHER -> Zeros(8)

-----------------------------------------------------------------------------
(* Pass 2: data emission.                                                   *)

\* AssemblyContext::addImmediate: one immediate in the directive's value type.
AddImmediate(c, value, type) ==
    LET int == IF value.format \in {"Integer", "Character"} THEN value.value ELSE 0
    IN  CASE type \in {"i8", "u8"}   -> AddData(c, LittleEndian(int, 1))
          [] type \in {"i16", "u16"} -> AddData(c, LittleEndian(int, 2))
          [] type \in {"i32", "u32"} -> AddData(c, LittleEndian(int, 4))
          [] type \in {"i64", "u64"} -> AddData(c, LittleEndian(int, 8))
          [] type = "f32" ->
                AddData(c, IF value.format = "Integer" THEN Float32Bytes(value.value)
                           ELSE Zeros(4))
          [] type = "f64" ->
                AddData(c, IF value.format = "Integer" THEN Float64Bytes(value.value)
                           ELSE Zeros(8))

AddString(c, str, nullTerminated) ==
    AddData(c, StringBytes(str) \o (IF nullTerminated THEN <<0>> ELSE <<>>))

RECURSIVE EmitValues(_, _, _, _)
\* The data directive loop of processDirective over the operands from i on.
EmitValues(c, name, ops, i) ==
    IF i > Len(ops) THEN c
    ELSE LET next == IF ops[i].type # "Immediate"
                     THEN Raise(c, "Data directive operand must be an immediate value", "")
                     ELSE AddImmediate(c, ops[i], name)
         IN  EmitValues(next, name, ops, i + 1)

RECURSIVE EmitStrings(_, _, _, _)
EmitStrings(c, name, ops, i) ==
    IF i > Len(ops) THEN c
    ELSE LET op == ops[i]
             next ==
                 IF op.type # "Immediate"
                 THEN Raise(c, "String operand must be an immediate value", "")
                 ELSE IF op.format # "String"
                      THEN Raise(c, "String operand must be a string literal", "")
                      ELSE AddString(c, op.text, name = "asciiz")
         IN  EmitStrings(next, name, ops, i + 1)

\* processDirective below the section and global branches: the label, then
\* the data, string, zero and align directives.
ProcessDataDirective(c, stmt) ==
    LET name == stmt.name
        ops  == stmt.operands
        d    == UpdateLabel(c, stmt.label, FALSE)
    IN  IF ElementSize(name) > 0 THEN EmitValues(d, name, ops, 1)
        ELSE IF name \in {"ascii", "asciiz"} THEN EmitStrings(d, name, ops, 1)
        ELSE IF name = "zero"
             THEN IF ops = <<>>
                  THEN Raise(d, "Zero directive requires a size operand", "")
                  ELSE IF ops[1].type # "Immediate"
                       THEN Raise(d, "Zero size must be an immediate value", "")
                       ELSE IF ops[1].format # "Integer"
                            THEN Raise(d, "Zero size must be an integer", "")
                            ELSE AddData(d, Zeros(ops[1].value))
        ELSE IF name = "align"
             THEN IF ops = <<>>
                  THEN Raise(d, "Align directive requires an alignment operand", "")
                  ELSE IF ops[1].type # "Immediate"
                       THEN Raise(d, "Alignment must be an immediate value", "")
                       ELSE IF ops[1].format # "Integer"
                            THEN Raise(d, "Alignment must be an integer", "")
                            ELSE IF ~IsPowerOfTwo(ops[1].value)
                                 THEN Raise(d, "Alignment must be a power of 2", "")
                                 ELSE AddData(d, Zeros(Padding(
                                          CurrentSection(d).currentOffset,
                                          ops[1].value)))
        ELSE Raise(d, "Unknown directive: ", name)

\* A second pass that forgets to re-apply .global.
ProcessDirectiveSkippingGlobal(c, stmt) ==
    IF stmt.name = "section" THEN SectionDirective(c, stmt.operands)
    ELSE IF stmt.name = "global" THEN c
    ELSE ProcessDataDirective(c, stmt)

ProcessDirective(c, stmt) ==
    IF stmt.name = "section" THEN SectionDirective(c, stmt.operands)
    ELSE IF stmt.name = "global" THEN GlobalDirective(c, stmt.operands)
    ELSE ProcessDataDirective(c, stmt)

-----------------------------------------------------------------------------
(* Pass 2: instructions.                                                    *)

\* A coil::Operand: its kind and the fields encodeInstruction reads.
CoilOperand(type, value, base, offset) ==
    [type |-> type, value |-> value, base |-> base, offset |-> offset]

NoOperand == CoilOperand("None", 0, 0, 0)

\* getRegisterIndex: the operand and the context with the diagnostic, if any.
GetRegisterIndex(c, chars) ==
    LET numStr == IF Len(chars) > 1 /\ Head(chars) = "r" THEN Tail(chars) ELSE chars
        n      == Stoul(numStr, -1)
    IN  IF n < 0
        THEN [c |-> Raise(c, "Invalid register name: ", ""), index |-> 0]
        ELSE [c |-> c, index |-> n]

\* The relative offset convertOperand stores for a label of the current section.
RelativeOffset(symbolValue, currentOffset) == symbolValue - currentOffset - 4

\* convertOperand: [c |-> the context afterwards, op |-> the coil::Operand].
ConvertOperand(c, operand) ==
    CASE operand.type = "Register" ->
            LET r == GetRegisterIndex(c, operand.chars)
            IN  [c |-> r.c, op |-> CoilOperand("Reg", r.index, 0, 0)]
      [] operand.type = "Immediate" ->
            IF operand.format \in {"Integer", "Character"}
            THEN [c |-> c, op |-> CoilOperand("Imm", operand.value, 0, 0)]
            ELSE [c |-> Raise(c, "String immediate not supported as operand", ""),
                  op |-> CoilOperand("Imm", 0, 0, 0)]
      [] operand.type = "Memory" ->
            LET r == GetRegisterIndex(c, operand.chars)
            IN  [c |-> r.c, op |-> CoilOperand("Mem", 0, r.index, operand.value)]
      [] operand.type = "Label" ->
            LET labelName == operand.text
            IN  IF Has(c.symbols, labelName) /\ c.symbols[labelName].defined
                THEN LET sym == c.symbols[labelName]
                     IN  IF sym.section = c.cur
                         THEN [c |-> c,
                               op |-> CoilOperand("Imm",
                                         RelativeOffset(sym.value,
                                                        CurrentSection(c).currentOffset),
                                         0, 0)]
                         ELSE [c |-> c, op |-> CoilOperand("Imm", sym.value, 0, 0)]
                ELSE [c |-> AddRelocation(c,
                                [symbolName |-> labelName, sectionName |-> c.cur,
                                 offset |-> CurrentSection(c).currentOffset,
                                 size |-> 4, isRelative |-> FALSE, addend |-> 0]),
                      op |-> CoilOperand("Imm", 0, 0, 0)]

\* An operand encoder that sizes the payload by the operand: two bytes for a
\* register, four for an immediate, eight for a memory reference.
EncodeOperandByWidth(op) ==
    CASE op.type = "Reg" -> LittleEndian(op.value, 2)
      [] op.type = "Imm" -> LittleEndian(op.value, 4)
      [] op.type = "Mem" -> LittleEndian(op.base, 4) \o LittleEndian(op.offset, 4)
      [] OTHER           -> Zeros(4)

\* The encodeOperand lambda: four bytes for every operand kind.
EncodeOperand(op) ==
    CASE op.type = "Reg" -> LittleEndian(op.value, 4)
      [] op.type = "Imm" -> LittleEndian(op.value, 4)
      [] op.type = "Mem" -> LittleEndian(op.base, 2) \o LittleEndian(op.offset, 2)
      [] OTHER           -> Zeros(4)

EncodeInstruction(instr) ==
    LET opTypes == BitOr(BitOr(OperandTypeCode(instr.dest.type) * 16,
                               OperandTypeCode(instr.src1.type) * 4),
                         OperandTypeCode(instr.src2.type))
        present(op) == IF op.type # "None" THEN EncodeOperand(op) ELSE <<>>
    IN  <<instr.opcode, instr.flag0, opTypes % 256, 0>>
        \o present(instr.dest) \o present(instr.src1) \o present(instr.src2)

RECURSIVE Flag0Of(_, _, _)
\* The parameter loop: the last condition code among the parameters wins.
Flag0Of(params, i, flag0) ==
    IF i > Len(params) THEN flag0
    ELSE Flag0Of(params, i + 1,
                 IF Flag0Byte(params[i]) # 0 THEN Flag0Byte(params[i]) ELSE flag0)

IsMnemonic(name) == \E i \in 1..Len(Mnemonics) : Mnemonics[i] = name

ProcessInstruction(c, stmt) ==
    LET d    == UpdateLabel(c, stmt.label, TRUE)
        name == ToLower(stmt.name)
        ops  == stmt.operands
    IN  IF ~IsMnemonic(name) THEN Raise(d, "Unknown instruction: ", name)
        ELSE IF Len(ops) > 3 THEN Raise(d, "Too many operands for instruction: ", name)
        ELSE
          LET r1 == IF Len(ops) >= 1 THEN ConvertOperand(d, ops[1])
                    ELSE [c |-> d, op |-> NoOperand]
              r2 == IF Len(ops) >= 2 THEN ConvertOperand(r1.c, ops[2])
                    ELSE [c |-> r1.c, op |-> NoOperand]
              r3 == IF Len(ops) >= 3 THEN ConvertOperand(r2.c, ops[3])
                    ELSE [c |-> r2.c, op |-> NoOperand]
              instr == [opcode |-> OpcodeByte(name),
                        flag0  |-> Flag0Of(stmt.params, 1, 0),
                        dest |-> r1.op, src1 |-> r2.op, src2 |-> r3.op]
          IN  AddData(r3.c, EncodeInstruction(instr))

GenerateStatement(c, stmt) ==
    CASE stmt.type = "Empty"       -> c
      [] stmt.type = "Label"       -> UpdateLabel(c, stmt.label, FALSE)
      [] stmt.type = "Directive"   -> ProcessDirective(c, stmt)
      [] stmt.type = "Instruction" -> ProcessInstruction(c, stmt)

-----------------------------------------------------------------------------
(* generateObject.                                                          *)

EmptyObject ==
    [sections |-> EmptyMap, symbols |-> EmptyMap,
     sectionOrder |-> <<>>, symbolOrder |-> <<>>]

\* A section generateObject skips: no data, or NoBits with nothing reserved.
IsEmptySection(section) ==
    \/ section.type # "NoBits" /\ section.data = <<>>
    \/ section.type = "NoBits" /\ section.currentOffset = 0

ObjectSections(sections) ==
    LET kept == {n \in DOMAIN sections : ~IsEmptySection(sections[n])}
    IN  [n \in kept |-> [flags |-> sections[n].flags, type |-> sections[n].type,
                         size |-> Len(sections[n].data), data |-> sections[n].data]]

\* The names of the model's sections and symbols.  The walk of a
\* std::unordered_map visits its keys in an order the hash table decides:
\* unspecified, but the same for every walk of one build.  sectionWalk and
\* symbolWalk hold that order; these two are the ones a behaviour uses
\* unless its initial state chooses otherwise.
SectionNames == <<".text", ".data", ".bss", ".rodata", ".custom">>

SymbolNames == <<"a", "b", "main", "nowhere">>

\* The sections the object receives, in the order of the walk.
ObjectSectionOrder(sections) ==
    SelectSeq(sectionWalk, LAMBDA n : Has(sections, n) /\ ~IsEmptySection(sections[n]))

RECURSIVE AddSymbols(_, _, _, _)
\* The symbol loop over SymbolNames from i on: r is [obj, errors, sections].
\* (The u32 conversion of a value keeps the small offsets of the model.)
AddSymbols(r, symbols, allow, i) ==
    IF i > Len(symbolWalk) THEN r
    ELSE LET name == symbolWalk[i]
             next ==
                 IF ~Has(symbols, name) THEN r
                 ELSE LET symbol == symbols[name]
                      IN  IF ~symbol.defined /\ ~allow
                          THEN [r EXCEPT !.errors = Append(@, <<"Undefined symbol: ", name>>)]
                          ELSE IF ~Has(r.sections, symbol.section) THEN r
                          ELSE IF ~Has(r.obj.sections, symbol.section)
                          THEN [r EXCEPT !.errors =
                                   Append(@, <<"Could not find section for symbol ", name>>)]
                          ELSE [r EXCEPT !.obj.symbols =
                                   Put(@, name, [value |-> symbol.value,
                                                 section |-> symbol.section,
                                                 type |-> symbol.type,
                                                 binding |-> symbol.binding]),
                                         !.obj.symbolOrder = Append(@, name)]
         IN  AddSymbols(next, symbols, allow, i + 1)

GenerateObjectOf(sections, symbols, errors, allow) ==
    AddSymbols([obj |-> [sections |-> ObjectSections(sections), symbols |-> EmptyMap,
                         sectionOrder |-> ObjectSectionOrder(sections),
                         symbolOrder |-> <<>>],
                errors |-> errors, sections |-> sections],
               symbols, allow, 1)

-----------------------------------------------------------------------------
(* The parser (Lexer + Parser of casm/parser.hpp): a line either parses to  *)
(* a statement or is a syntax error, which is recorded and skipped.         *)

InvalidLine == Statement("Invalid", "", "", <<>>, <<>>)

Parse(lines) ==
    [statements |-> SelectSeq(lines, LAMBDA l : l.type # "Invalid"),
     errors     |-> [i \in 1..Len(SelectSeq(lines, LAMBDA l : l.type = "Invalid"))
                       |-> <<"Parse error", "">>]]

-----------------------------------------------------------------------------
(* The disassembler (casm::Disassembler, src/src/disasm.cpp).  Its output   *)
(* text is a sequence of lines, each given as the statement it reads as;    *)
(* a comment line reads as nothing and is left out.                         *)

\* sizeof(coil::Instruction): an opcode, a flag and three operands that each
\* hold a kind, a value type and a union with 64-bit members.
SizeofInstruction == 56

\* A line whose content is the library's reading of raw bytes as a
\* coil::Instruction object.
ReinterpretedLine == Statement("Instruction", "", "unknown_op", <<>>, <<>>)

RECURSIVE ByteLines(_)
\* disassembleDataSection: .byte lines of at most 16 values each.
ByteLines(data) ==
    IF data = <<>> THEN <<>>
    ELSE LET n == IF Len(data) < 16 THEN Len(data) ELSE 16
         IN  <<DirectiveStmt("", "byte", [i \in 1..n |-> IntegerOperand(data[i])])>>
             \o ByteLines(SubSeq(data, n + 1, Len(data)))

\* disassembleCodeSection: one line per whole coil::Instruction in the data.
DisassembleCodeSection(section) ==
    LET instrCount == Len(section.data) \div SizeofInstruction
    IN  [i \in 1..instrCount |-> ReinterpretedLine]

DisassembleDataSection(section) == ByteLines(section.data)

DisassembleSection(section) ==
    IF section.type = "ProgBits"
    THEN IF "Code" \in section.flags
         THEN DisassembleCodeSection(section)
         ELSE DisassembleDataSection(section)
    ELSE <<>>

RECURSIVE DisassembleFrom(_, _)
\* The loop of disassemble over the object's sections from the i-th on.
DisassembleFrom(obj, i) ==
    IF i > Len(obj.sectionOrder) THEN <<>>
    ELSE LET name == obj.sectionOrder[i]
         IN  <<DirectiveStmt("", "section", <<LabelOperand(name)>>)>>
             \o DisassembleSection(obj.sections[name])
             \o DisassembleFrom(obj, i + 1)

Disassemble(obj) == DisassembleFrom(obj, 1)

-----------------------------------------------------------------------------
(* Token values (src/src/token.cpp).  A std::string is the sequence of its  *)
(* characters, each a one-character string.                                 *)

\* isspace, isalnum and the digit values strtoll knows, over the characters
\* of the model.
IsSpace(ch) == ch \in {" ", "\t"}

HexValue(ch) ==
    CASE DigitValue(ch) >= 0 -> DigitValue(ch)
      [] ch \in {"a", "A"} -> 10 [] ch \in {"b", "B"} -> 11 [] ch \in {"c", "C"} -> 12
      [] ch \in {"d", "D"} -> 13 [] ch \in {"e", "E"} -> 14 [] ch \in {"f", "F"} -> 15
      [] OTHER -> -1

IsAlnum(ch) ==
    \/ DigitValue(ch) >= 0
    \/ ch \in {"a", "b", "c", "d", "e", "f", "i", "o", "r", "x", "z",
               "A", "B", "C", "D", "E", "F", "X"}

\* The digit ch stands for in the given base; -1 when it is none.
DigitIn(ch, base) == IF HexValue(ch) >= 0 /\ HexValue(ch) < base THEN HexValue(ch) ELSE -1

RECURSIVE SkipSpace(_)
SkipSpace(chars) ==
    IF chars # <<>> /\ IsSpace(Head(chars)) THEN SkipSpace(Tail(chars)) ELSE chars

RECURSIVE Digits(_, _, _, _)
\* The digits strtoll consumes: [count, value] of the longest digit prefix.
Digits(chars, base, count, acc) ==
    IF chars = <<>> \/ DigitIn(Head(chars), base) < 0
    THEN [count |-> count, value |-> acc, rest |-> chars]
    ELSE Digits(Tail(chars), base, count + 1, acc * base + DigitIn(Head(chars), base))

\* std::stoll(str, nullptr, base): leading white space, an optional sign, for
\* base 16 an optional 0x, then as many digits as there are; what follows
\* them is ignored.  It throws (ok = FALSE) when there is no digit.
Stoll(chars, base) ==
    LET s1     == SkipSpace(chars)
        signed == s1 # <<>> /\ Head(s1) \in {"-", "+"}
        s2     == IF signed THEN Tail(s1) ELSE s1
        s3     == IF base = 16 /\ Len(s2) >= 3 /\ s2[1] = "0" /\ s2[2] \in {"x", "X"}
                     /\ HexValue(s2[3]) >= 0
                  THEN SubSeq(s2, 3, Len(s2)) ELSE s2
        d      == Digits(s3, base, 0, 0)
    IN  [ok    |-> d.count > 0,
         value |-> IF signed /\ Head(s1) = "-" THEN -d.value ELSE d.value]

\* std::stod(str): white space, an optional sign, then a decimal number with
\* at least one digit before or after the point, a hexadecimal one behind 0x,
\* or inf or nan.  The value is kept as its integer part and the digits of
\* its fraction; exponents are not among the texts of the model.
Stod(chars) ==
    LET s1     == SkipSpace(chars)
        signed == s1 # <<>> /\ Head(s1) \in {"-", "+"}
        s2     == IF signed THEN Tail(s1) ELSE s1
        hexed  == /\ Len(s2) >= 3 /\ s2[1] = "0" /\ s2[2] \in {"x", "X"}
                  /\ \/ HexValue(s2[3]) >= 0
                     \/ s2[3] = "." /\ Len(s2) >= 4 /\ HexValue(s2[4]) >= 0
        base   == IF hexed THEN 16 ELSE 10
        whole  == Digits(IF hexed THEN SubSeq(s2, 3, Len(s2)) ELSE s2, base, 0, 0)
        frac   == IF whole.rest # <<>> /\ Head(whole.rest) = "."
                  THEN Digits(Tail(whole.rest), base, 0, 0)
                  ELSE [count |-> 0, value |-> 0, rest |-> whole.rest]
        named  == /\ Len(s2) >= 3
                  /\ \/ s2[1] \in {"i", "I"} /\ s2[2] \in {"n", "N"} /\ s2[3] \in {"f", "F"}
                     \/ s2[1] \in {"n", "N"} /\ s2[2] \in {"a", "A"} /\ s2[3] \in {"n", "N"}
    IN  [ok    |-> named \/ whole.count + frac.count > 0,
         value |-> IF signed /\ Head(s1) = "-" THEN -whole.value ELSE whole.value,
         fraction |-> SubSeq(whole.rest, 2, 1 + frac.count)]

\* std::optional<ImmediateValue>: format "None" is std::nullopt.
ImmediateValue(format, base, int, chars) ==
    [format |-> format, base |-> base, int |-> int, chars |-> chars]

NoImmediate == ImmediateValue("None", "", 0, <<>>)

\* The plain forms parseImmediate tries last: a float when the text holds a
\* point, else a decimal integer.
PlainImmediate(value) ==
    IF \E i \in DOMAIN value : value[i] = "."
    THEN IF Stod(value).ok
         THEN ImmediateValue("Float", "Decimal", Stod(value).value, Stod(value).fraction)
         ELSE NoImmediate
    ELSE IF Stoll(value, 10).ok
         THEN ImmediateValue("Integer", "Decimal", Stoll(value, 10).value, <<>>)
         ELSE NoImmediate

BaseNumber(b) == CASE b = "d" -> 10 [] b = "x" -> 16 [] b = "b" -> 2 [] OTHER -> 8

BaseName(b) ==
    CASE b = "d" -> "Decimal" [] b = "x" -> "Hexadecimal" [] b = "b" -> "Binary"
      [] OTHER -> "Octal"

\* An escaped character of a character literal.
Escaped(ch) ==
    CASE ch = "n" -> "\n" [] ch = "t" -> "\t" [] ch = "r" -> "\r" [] ch = "0" -> "NUL"
      [] OTHER -> ch

parseImmediate(str) ==
    LET value == IF str # <<>> /\ Head(str) = "$" THEN Tail(str) ELSE str
        n     == Len(value)
    IN  IF value = <<>> THEN NoImmediate
        ELSE IF n >= 3 /\ value[1] = "'" /\ value[n] = "'"
        THEN IF n = 3 THEN ImmediateValue("Character", "Decimal", 0, <<value[2]>>)
             ELSE IF n = 4 /\ value[2] = "\\"
                  THEN ImmediateValue("Character", "Decimal", 0, <<Escaped(value[3])>>)
                  ELSE NoImmediate
        ELSE IF n >= 2 /\ value[1] = "\"" /\ value[n] = "\""
        THEN ImmediateValue("String", "Decimal", 0, SubSeq(value, 2, n - 1))
        ELSE IF n >= 3 /\ value[1] = "i" /\ value[2] \in {"d", "x", "b", "o"}
        THEN LET r == Stoll(SubSeq(value, 3, n), BaseNumber(value[2]))
             IN  IF r.ok THEN ImmediateValue("Integer", BaseName(value[2]), r.value, <<>>)
                 ELSE NoImmediate
        ELSE IF n >= 3 /\ value[1] = "f"
        THEN LET r == Stod(SubSeq(value, 3, n))
             IN  IF r.ok THEN ImmediateValue("Float", "Decimal", r.value, r.fraction)
                 ELSE NoImmediate
        ELSE PlainImmediate(value)

\* std::optional<MemoryReference>: ok = FALSE is std::nullopt.
MemoryReference(reg, offset) == [ok |-> TRUE, reg |-> reg, offset |-> offset]

NoMemoryReference == [ok |-> FALSE, reg |-> <<>>, offset |-> 0]

\* content.find('%'): the index of the first %, 0 when there is none.
FindPercent(content) ==
    IF \E i \in DOMAIN content : content[i] = "%"
    THEN CHOOSE i \in DOMAIN content :
             content[i] = "%" /\ \A j \in 1..(i - 1) : content[j] # "%"
    ELSE 0

RECURSIVE NameEnd(_, _)
\* The while loop over the register name: the first index from i on that
\* holds neither a letter, a digit nor an underscore.
NameEnd(content, i) ==
    IF i <= Len(content) /\ (IsAlnum(content[i]) \/ content[i] = "_")
    THEN NameEnd(content, i + 1) ELSE i

parseMemoryRef(str) ==
    IF Len(str) < 3 \/ str[1] # "[" \/ str[Len(str)] # "]" THEN NoMemoryReference
    ELSE LET content  == SubSeq(str, 2, Len(str) - 1)
             regStart == FindPercent(content)
             regEnd   == NameEnd(content, regStart + 1)
             regName  == SubSeq(content, regStart + 1, regEnd - 1)
         IN  IF regStart = 0 THEN NoMemoryReference
             ELSE IF regEnd <= Len(content) /\ content[regEnd] \in {"+", "-"}
                  THEN LET r == Stoll(SubSeq(content, regEnd + 1, Len(content)), 10)
                       IN  IF ~r.ok THEN NoMemoryReference
                           ELSE MemoryReference(regName,
                                    IF content[regEnd] = "-" THEN -r.value ELSE r.value)
                  ELSE MemoryReference(regName, 0)

-----------------------------------------------------------------------------
(* Parser::parseLine (src/src/parser.cpp) over the tokens Parser::tokenize  *)
(* makes of a line.  Indices are those of the code, from 0; a parse         *)
(* function returns [result, index, oob]: its Result, the index it leaves   *)
(* behind, and whether it read tokens[i] for an i >= tokens.size().         *)

Token(type, tokenText) == [type |-> type, text |-> tokenText]

\* tokens[i] of the code, for an i < tokens.size().
At(tokens, i) == tokens[i + 1]

\* The type suffix of a register token's text: what follows its '.'.
RegisterSuffix(tokenText) ==
    CASE tokenText = "r2.i32" -> "i32" [] tokenText = "r2.zz" -> "zz" [] OTHER -> ""

\* The keys of type_map.
TypeMap == {"i8", "i16", "i32", "i64", "u8", "u16", "u32", "u64", "f32", "f64", "ptr"}

\* std::stoi on the text of an integer token: it throws std::out_of_range
\* for a number that does not fit an int.
StoiFits(tokenText) == tokenText # "99999999999"

Parsed(result, index, oob) == [result |-> result, index |-> index, oob |-> oob]

\* The error branch `index >= tokens.size() || tokens[index].type != T`, whose
\* report reads tokens[index].line and .column.
Expected(tokens, index) == Parsed("InvalidFormat", index, index >= Len(tokens))

Is(tokens, index, type) == index < Len(tokens) /\ At(tokens, index).type = type

parseRegister(tokens, index) ==
    IF ~Is(tokens, index, "Register") THEN Expected(tokens, index)
    ELSE LET suffix == RegisterSuffix(At(tokens, index).text)
         IN  IF suffix # "" /\ suffix \notin TypeMap
             THEN Parsed("InvalidFormat", index + 1, FALSE)
             ELSE Parsed("Success", index + 1, FALSE)

parseMemory(tokens, index) ==
    IF ~Is(tokens, index, "LBracket") THEN Expected(tokens, index)
    ELSE IF ~Is(tokens, index + 1, "Register") THEN Expected(tokens, index + 1)
    ELSE LET base == parseRegister(tokens, index + 1)
             i    == base.index
             signed == Is(tokens, i, "Plus") \/ Is(tokens, i, "Minus")
             last == IF signed THEN i + 2 ELSE i
         IN  IF base.result # "Success" THEN base
             ELSE IF signed /\ ~Is(tokens, i + 1, "Integer") THEN Expected(tokens, i + 1)
             ELSE IF signed /\ ~StoiFits(At(tokens, i + 1).text)
                  THEN Parsed("Throws", i + 1, FALSE)
             ELSE IF ~Is(tokens, last, "RBracket") THEN Expected(tokens, last)
             ELSE Parsed("Success", last + 1, FALSE)

parseOperand(tokens, index) ==
    IF index >= Len(tokens) THEN Parsed("InvalidFormat", index, tokens = <<>>)
    ELSE LET type == At(tokens, index).type
         IN  CASE type = "Register" -> parseRegister(tokens, index)
               [] type = "LBracket" -> parseMemory(tokens, index)
               \* Parser::parseImmediate: std::stoll and std::stod take every
               \* number text of the model.
               [] type \in {"Integer", "Float"} -> Parsed("Success", index + 1, FALSE)
               [] type = "Identifier" -> Parsed("Success", index + 1, FALSE)
               [] OTHER -> Parsed("InvalidFormat", index, FALSE)

RECURSIVE ParseOperands(_, _)
\* The operand loop of parseInstruction.
ParseOperands(tokens, index) ==
    IF index >= Len(tokens) \/ At(tokens, index).type = "Comment"
    THEN Parsed("Success", index, FALSE)
    ELSE LET r == parseOperand(tokens, index)
         IN  IF r.result # "Success" THEN r
             ELSE ParseOperands(tokens,
                      IF Is(tokens, r.index, "Comma") THEN r.index + 1 ELSE r.index)

parseInstruction(tokens, index) ==
    IF ~Is(tokens, index, "Identifier") THEN Expected(tokens, index)
    ELSE ParseOperands(tokens, index + 1)

\* parseDirective takes every token up to a comment as an argument.
parseDirective(tokens, index) ==
    IF ~Is(tokens, index, "Directive") THEN Expected(tokens, index)
    ELSE Parsed("Success", Len(tokens), FALSE)

parseLine(tokens) ==
    IF tokens = <<>> \/ At(tokens, 0).type = "Comment" THEN Parsed("Success", 0, FALSE)
    ELSE LET labelled == Is(tokens, 0, "Identifier") /\ Is(tokens, 1, "Colon")
             index    == IF labelled THEN 2 ELSE 0
         IN  IF labelled /\ (index >= Len(tokens) \/ At(tokens, index).type = "Comment")
             THEN Parsed("Success", index, FALSE)
             ELSE IF index >= Len(tokens) THEN Parsed("Success", index, FALSE)
             ELSE IF At(tokens, index).type = "Directive" THEN parseDirective(tokens, index)
             ELSE IF At(tokens, index).type = "Identifier"
                  THEN parseInstruction(tokens, index)
             ELSE Parsed("InvalidFormat", index, FALSE)

\* What the caller may see: a read past the end of the vector is undefined
\* behaviour, after which the call returns its error or does not return.
Outcomes(r) ==
    IF r.oob THEN {r, [r EXCEPT !.result = "Crash"]} ELSE {r}

-----------------------------------------------------------------------------
(* The state machine.                                                       *)

\* The context record of the current state.
Context ==
    [sections |-> m_sections, symbols |-> m_symbols, relocations |-> m_relocations,
     cur |-> m_currentSection, errors |-> m_errors, thrown |-> <<>>]

\* A freshly constructed AssemblyContext, with m_errors cleared.
FreshContext ==
    [sections |-> EmptyMap, symbols |-> EmptyMap, relocations |-> <<>>,
     cur |-> "", errors |-> <<>>, thrown |-> <<>>]

Store(c) ==
    /\ m_sections' = c.sections
    /\ m_symbols' = c.symbols
    /\ m_relocations' = c.relocations
    /\ m_currentSection' = c.cur
    /\ m_errors' = c.errors

\* assemble()'s return: the result object, with getErrors() as the caller sees it.
Return(obj, errors) ==
    /\ object' = obj
    /\ returns' = Append(returns, [object |-> obj, errors |-> errors])
    /\ pc' = "returned"

\* The catch clause of assemble(): the exception becomes a diagnostic and the
\* result is an empty AssemblyResult.
Catch(c) ==
    /\ Store([c EXCEPT !.errors = Append(@, c.thrown)])
    /\ Return(EmptyObject, Append(c.errors, c.thrown))

\* assembleSource(): parse; on parse errors return at once, else enter
\* assemble(), which clears m_errors, builds the context and starts pass 1.
AssembleSource ==
    /\ pc \in {"idle", "returned"}
    /\ callsLeft > 0
    /\ callsLeft' = callsLeft - 1
    /\ emitted' = <<>>
    /\ idx' = 1
    /\ LET parsed == Parse(source)
       IN  IF parsed.errors # <<>>
           THEN /\ m_errors' = m_errors \o parsed.errors
                /\ Return(EmptyObject, m_errors \o parsed.errors)
                /\ UNCHANGED <<statements, m_sections, m_symbols, m_relocations,
                               m_currentSection>>
           ELSE /\ statements' = parsed.statements
                /\ Store(EnsureSection(FreshContext, ".text"))
                /\ pc' = "collectSymbols"
                /\ UNCHANGED <<object, returns>>
    /\ UNCHANGED <<source, allowUnresolvedSymbols, sectionWalk,
                   symbolWalk, input, outcome, codegen>>

\* One iteration of the loop of collectSymbols.
CollectSymbolsStep ==
    /\ pc = "collectSymbols"
    /\ idx <= Len(statements)
    /\ LET c == CollectStatement(Context, statements[idx])
       IN  IF c.thrown # <<>>
           THEN Catch(c) /\ UNCHANGED idx
           ELSE Store(c) /\ idx' = idx + 1 /\ UNCHANGED <<pc, object, returns>>
    /\ UNCHANGED <<source, callsLeft, statements, emitted, allowUnresolvedSymbols, sectionWalk,
                   symbolWalk, input, outcome, codegen>>

\* A reset that clears the data and leaves currentOffset where pass 1 ended.
ResetDataOnly(c) ==
    [c EXCEPT !.sections = [n \in DOMAIN @ |-> [@[n] EXCEPT !.data = <<>>]]]

\* A reset that replaces every section by a default-constructed Section.
ResetToDefaultSections(c) ==
    [c EXCEPT !.sections = [n \in DOMAIN @ |->
                               [name |-> n, data |-> <<>>, currentOffset |-> 0,
                                type |-> "ProgBits", flags |-> {}]]]

\* The head of generateCode: reset every section's data and offset, go to .text.
ResetSections(c) ==
    [c EXCEPT !.sections = [n \in DOMAIN @ |-> [@[n] EXCEPT !.data = <<>>,
                                                          !.currentOffset = 0]]]

GenerateCodeBegin ==
    /\ pc = "collectSymbols"
    /\ idx > Len(statements)
    /\ Store(SwitchSection(ResetSections(Context), ".text"))
    /\ pc' = "generateCode"
    /\ idx' = 1
    /\ UNCHANGED <<source, callsLeft, statements, object, emitted, returns,
                   allowUnresolvedSymbols, sectionWalk,
                   symbolWalk, input, outcome, codegen>>

\* One iteration of the loop of generateCode.
GenerateCodeStep ==
    /\ pc = "generateCode"
    /\ idx <= Len(statements)
    /\ LET c   == GenerateStatement(Context, statements[idx])
           sec == c.cur
           old == IF Has(m_sections, sec) THEN m_sections[sec] ELSE NewSection(sec)
       IN  /\ Store(c)
           /\ emitted' = Append(emitted,
                                [section |-> sec, offset |-> old.currentOffset,
                                 size |-> Len(c.sections[sec].data) - Len(old.data)])
    /\ idx' = idx + 1
    /\ UNCHANGED <<source, callsLeft, pc, statements, object, returns,
                   allowUnresolvedSymbols, sectionWalk,
                   symbolWalk, input, outcome, codegen>>

\* generateObject() and the return of assemble().
GenerateObject ==
    /\ pc = "generateCode"
    /\ idx > Len(statements)
    /\ LET r == GenerateObjectOf(m_sections, m_symbols, m_errors, allowUnresolvedSymbols)
       IN  /\ m_errors' = r.errors
           /\ Return(r.obj, r.errors)
    /\ UNCHANGED <<source, callsLeft, statements, idx, m_sections, m_symbols,
                   m_relocations, m_currentSection, emitted, allowUnresolvedSymbols, sectionWalk,
                   symbolWalk, input, outcome, codegen>>

Next ==
    \/ AssembleSource
    \/ CollectSymbolsStep
    \/ GenerateCodeBegin
    \/ GenerateCodeStep
    \/ GenerateObject

\* The variables of the Assembler.
assemblerVars ==
    <<source, callsLeft, pc, statements, idx, m_sections, m_symbols, m_relocations,
      m_currentSection, m_errors, object, emitted, returns, allowUnresolvedSymbols,
      sectionWalk, symbolWalk>>

\* One call of parseImmediate on the input.
ParseImmediateCall ==
    /\ outcome = <<>>
    /\ outcome' = <<parseImmediate(input)>>
    /\ UNCHANGED <<assemblerVars, input, codegen>>

NextImmediate == ParseImmediateCall

\* One call of parseMemoryRef on the input.
ParseMemoryRefCall ==
    /\ outcome = <<>>
    /\ outcome' = <<parseMemoryRef(input)>>
    /\ UNCHANGED <<assemblerVars, input, codegen>>

NextMemoryRef == ParseMemoryRefCall

\* One call of Parser::parseLine on a line whose tokens are the input.
ParseLineCall ==
    /\ outcome = <<>>
    /\ \E r \in Outcomes(parseLine(input)) : outcome' = <<r>>
    /\ UNCHANGED <<assemblerVars, input, codegen>>

NextParseLine == ParseLineCall

-----------------------------------------------------------------------------
(* The line-based CodeGenerator (src/src/codegen.cpp).  A generator is the  *)
(* record [initialized, symbols, sections, current_section]: symbols maps a *)
(* name to [is_defined, is_global, value], sections maps a name to [flags,  *)
(* current_offset], and current_section is the name of the section the      *)
(* pointer refers to, "" for nullptr.  Every function returns [cg, result]: *)
(* the generator it leaves behind and its Result.  The directives of the    *)
(* model's lines are section, global, local, the integer directives and     *)
(* space, and names the code does not know.                                 *)

\* A Line: its type, its label ("" for none), and the name, the condition and
\* the operands of its instruction, or the name and the args of its directive.
Line(type, label, name, condition, operands) ==
    [type |-> type, label |-> label, name |-> name, condition |-> condition,
     operands |-> operands]

\* An Operand of an instruction; hasLabel is whether its label pointer is set.
CodegenOperand(type, hasLabel, label) ==
    [type |-> type, hasLabel |-> hasLabel, label |-> label]

Done(cg, result) == [cg |-> cg, result |-> result]

\* The keys of opcode_map and of condition_map.
OpcodeMap ==
    { "nop", "br", "jump", "call", "ret", "load", "store", "push", "pop", "add",
      "sub", "mul", "div", "rem", "inc", "dec", "and", "or", "xor", "not", "shl",
      "shr", "sar", "cmp", "test" }

ConditionMap == { "eq", "neq", "gt", "gte", "lt", "lte" }

\* The flags a section gets from its name.
SectionFlagsOf(name) ==
    CASE name = ".text" -> {"Code", "Alloc"}
      [] name \in {".data", ".bss"} -> {"Write", "Alloc"}
      [] OTHER -> {}

CodegenSection(name) == [flags |-> SectionFlagsOf(name), current_offset |-> 0]

\* A Symbol as its constructor leaves it.
CodegenSymbol == [is_defined |-> FALSE, is_global |-> FALSE, value |-> 0]

\* The offset of the current section, advanced by size.
AdvanceSection(cg, size) ==
    [cg EXCEPT !.sections[cg.current_section].current_offset = @ + size]

initialize(cg) ==
    Done([cg EXCEPT !.sections = Put(Put(Put(cg.sections, ".text", CodegenSection(".text")),
                                         ".data", CodegenSection(".data")),
                                     ".bss", CodegenSection(".bss")),
                    !.current_section = ".text",
                    !.initialized = TRUE],
         "Success")

defineLabel(cg, label) ==
    IF cg.current_section = "" THEN Done(cg, "BadState")
    ELSE IF Has(cg.symbols, label) /\ cg.symbols[label].is_defined
    THEN Done(cg, "AlreadyExists")
    ELSE LET old == IF Has(cg.symbols, label) THEN cg.symbols[label] ELSE CodegenSymbol
             sym == [old EXCEPT !.value = cg.sections[cg.current_section].current_offset,
                                !.is_defined = TRUE]
         IN  Done([cg EXCEPT !.symbols = Put(cg.symbols, label, sym)], "Success")

\* referenceSymbol: an unknown name becomes an undefined symbol.
referenceSymbol(cg, name) ==
    IF Has(cg.symbols, name) THEN cg
    ELSE [cg EXCEPT !.symbols = Put(cg.symbols, name, CodegenSymbol)]

convertOperand(cg, src) ==
    CASE src.type \in {"Register", "Immediate", "Memory"} -> Done(cg, "Success")
      [] src.type = "Label" ->
            IF ~src.hasLabel THEN Done(cg, "InvalidArg")
            ELSE Done(referenceSymbol(cg, src.label), "Success")
      [] OTHER -> Done(cg, "InvalidArg")

RECURSIVE ConvertOperands(_, _, _)
\* The loop of generateInstruction over the operands from the i-th on.
ConvertOperands(cg, operands, i) ==
    IF i > Len(operands) THEN Done(cg, "Success")
    ELSE LET r == convertOperand(cg, operands[i])
         IN  IF r.result # "Success" THEN r
             ELSE ConvertOperands(r.cg, operands, i + 1)

generateInstruction(cg, instr) ==
    IF cg.current_section = "" THEN Done(cg, "BadState")
    ELSE IF "Code" \notin cg.sections[cg.current_section].flags
    THEN Done(cg, "InvalidFormat")
    ELSE IF instr.name \notin OpcodeMap THEN Done(cg, "InvalidFormat")
    ELSE IF instr.condition # "" /\ instr.condition \notin ConditionMap
    THEN Done(cg, "InvalidFormat")
    ELSE LET r == ConvertOperands(cg, instr.operands, 1)
         IN  IF r.result # "Success" THEN r
             ELSE IF Len(instr.operands) > 3 THEN Done(r.cg, "InvalidFormat")
             ELSE Done(AdvanceSection(r.cg, SizeofInstruction), "Success")

\* The size of the values of an integer directive, 0 for another name.
IntegerSize(name) ==
    CASE name \in {"i8", "u8"} -> 1
      [] name \in {"i16", "u16"} -> 2
      [] name \in {"i32", "u32"} -> 4
      [] name \in {"i64", "u64"} -> 8
      [] OTHER -> 0

\* The range check of an integer directive on one value.
IntegerInRange(name, value) ==
    CASE name = "i8"  -> value >= -128 /\ value <= 127
      [] name = "i16" -> value >= -32768 /\ value <= 32767
      [] name = "u8"  -> value >= 0 /\ value <= 255
      [] name = "u16" -> value >= 0 /\ value <= 65535
      [] name \in {"u32", "u64"} -> value >= 0
      [] OTHER -> TRUE

RECURSIVE IntegerValues(_, _, _, _)
\* The loop of an integer directive over its args from the i-th on.
IntegerValues(cg, name, args, i) ==
    IF i > Len(args) THEN Done(cg, "Success")
    ELSE IF args[i].type # "Integer" THEN Done(cg, "InvalidFormat")
    ELSE IF ~IntegerInRange(name, Stoll(args[i].text, 10).value)
    THEN Done(cg, "InvalidFormat")
    ELSE IntegerValues(AdvanceSection(cg, IntegerSize(name)), name, args, i + 1)

\* processDirective; name is the directive's name behind its leading dot.
processDirective(cg, dir) ==
    LET name == dir.name
        args == dir.operands
    IN  CASE name = "section" ->
                IF Len(args) < 1 THEN Done(cg, "InvalidFormat")
                ELSE LET section_name == args[1].text
                     IN  Done([cg EXCEPT
                                 !.sections = IF Has(cg.sections, section_name) THEN @
                                              ELSE Put(@, section_name,
                                                       CodegenSection(section_name)),
                                 !.current_section = section_name],
                              "Success")
          [] name \in {"global", "local"} ->
                IF Len(args) < 1 THEN Done(cg, "InvalidFormat")
                ELSE LET symbol_name == args[1].text
                         old == IF Has(cg.symbols, symbol_name)
                                THEN cg.symbols[symbol_name] ELSE CodegenSymbol
                     IN  Done([cg EXCEPT
                                 !.symbols = Put(@, symbol_name,
                                                 [old EXCEPT !.is_global = (name = "global")])],
                              "Success")
          [] IntegerSize(name) > 0 ->
                IF args = <<>> THEN Done(cg, "InvalidFormat")
                ELSE IntegerValues(cg, name, args, 1)
          [] name = "space" ->
                IF Len(args) < 1 \/ args[1].type # "Integer" THEN Done(cg, "InvalidFormat")
                ELSE Done(AdvanceSection(cg, Stoul(args[1].text, -1)), "Success")
          [] OTHER -> Done(cg, "InvalidFormat")

generateLine(cg, line) ==
    IF ~cg.initialized THEN Done(cg, "BadState")
    ELSE LET l == IF line.label # "" THEN defineLabel(cg, line.label)
                  ELSE Done(cg, "Success")
         IN  IF l.result # "Success" THEN l
             ELSE CASE line.type \in {"Empty", "Label"} -> Done(l.cg, "Success")
                    [] line.type = "Directive" -> processDirective(l.cg, line)
                    [] line.type = "Instruction" -> generateInstruction(l.cg, line)
                    [] OTHER -> Done(l.cg, "InvalidArg")

\* What initStringTable, initSymbolTable, addString, addSection and addSymbol
\* of the object library answer: they succeed.
ObjectLibraryResult == "Success"

\* finalize: the sections are added, then the symbols; a symbol that is not
\* defined ends it.
finalize(cg) ==
    IF ~cg.initialized THEN Done(cg, "BadState")
    ELSE IF ObjectLibraryResult # "Success" THEN Done(cg, ObjectLibraryResult)
    ELSE IF \E name \in DOMAIN cg.symbols : ~cg.symbols[name].is_defined
    THEN Done(cg, "InvalidFormat")
    ELSE Done(cg, "Success")

\* A call and what it returned, as kept in outcome.
Returned(call, result) == [call |-> call, result |-> result]

\* The lines handed to generateLine.
CodegenLines ==
    { Line("Instruction", "", "nop", "", <<>>),
      Line("Instruction", "", "add", "",
           <<CodegenOperand("Register", FALSE, ""), CodegenOperand("Register", FALSE, ""),
             CodegenOperand("Immediate", FALSE, "")>>),
      Line("Instruction", "", "br", "eq", <<CodegenOperand("Label", TRUE, "label")>>),
      Line("Instruction", "", "br", "zz", <<CodegenOperand("Label", TRUE, "label")>>),
      Line("Instruction", "", "call", "", <<CodegenOperand("Label", TRUE, "function")>>),
      Line("Instruction", "", "jump", "", <<CodegenOperand("Register", FALSE, "")>>),
      Line("Instruction", "", "jmp", "", <<CodegenOperand("Label", TRUE, "label")>>),
      Line("Instruction", "", "push", "", <<CodegenOperand("Label", FALSE, "")>>),
      Line("Instruction", "", "add", "",
           <<CodegenOperand("Label", TRUE, "label"), CodegenOperand("Register", FALSE, ""),
             CodegenOperand("Register", FALSE, ""), CodegenOperand("Register", FALSE, "")>>),
      Line("Label", "label", "", "", <<>>),
      Line("Instruction", "function", "ret", "", <<>>),
      Line("Empty", "", "", "", <<>>),
      Line("Directive", "", "section", "", <<Token("Identifier", ".data")>>),
      Line("Directive", "", "section", "", <<Token("Identifier", ".text")>>),
      Line("Directive", "", "section", "", <<>>),
      Line("Directive", "", "global", "", <<Token("Identifier", "function")>>),
      Line("Directive", "", "i8", "", <<Token("Integer", <<"4", "2">>)>>),
      Line("Directive", "", "i8", "", <<Token("Integer", <<"3", "0", "0">>)>>),
      Line("Directive", "", "space", "", <<Token("Integer", <<"8">>)>>),
      Line("Directive", "", "macro", "", <<>>) }

\* One call of initialize.
InitializeCall ==
    /\ Len(outcome) < MaxLines + 2
    /\ \A i \in DOMAIN outcome : outcome[i].call # "finalize"
    /\ LET r == initialize(codegen)
       IN  /\ codegen' = r.cg
           /\ outcome' = Append(outcome, Returned("initialize", r.result))
    /\ UNCHANGED <<assemblerVars, input>>

\* One call of generateLine; input keeps the lines handed over so far.
GenerateLineCall ==
    /\ Len(input) < MaxLines
    /\ \A i \in DOMAIN outcome : outcome[i].call # "finalize"
    /\ \E line \in CodegenLines :
          LET r == generateLine(codegen, line)
          IN  /\ codegen' = r.cg
              /\ input' = Append(input, line)
              /\ outcome' = Append(outcome, Returned("generateLine", r.result))
    /\ UNCHANGED assemblerVars

\* One call of finalize, the last call on a generator.
FinalizeCall ==
    /\ \A i \in DOMAIN outcome : outcome[i].call # "finalize"
    /\ LET r == finalize(codegen)
       IN  /\ codegen' = r.cg
           /\ outcome' = Append(outcome, Returned("finalize", r.result))
    /\ UNCHANGED <<assemblerVars, input>>

NextCodegen ==
    \/ InitializeCall
    \/ GenerateLineCall
    \/ FinalizeCall

RECURSIVE CollectFrom(_, _, _)
\* The loop of collectSymbols from statement i on; an exception ends it.
CollectFrom(c, stmts, i) ==
    IF i > Len(stmts) \/ c.thrown # <<>> THEN c
    ELSE CollectFrom(CollectStatement(c, stmts[i]), stmts, i + 1)

\* The context collectSymbols leaves behind for a statement list.
CollectSymbols(stmts) == CollectFrom(EnsureSection(FreshContext, ".text"), stmts, 1)

-----------------------------------------------------------------------------
(* The source texts of the model: every sequence of at most MaxStmts lines  *)
(* over an alphabet of lines.                                               *)

Programs(alphabet) == UNION {[1..n -> alphabet] : n \in 0..MaxStmts}

r1 == <<"r", "1">>
r2 == <<"r", "2">>

\* Code: labels, jumps forwards and backwards, instructions of 0..3
\* operands, a labelled instruction, a labelled data directive, .global.
CodeLines ==
    { LabelStmt("a"),
      InstructionStmt("", "nop", <<>>, <<>>),
      InstructionStmt("", "jmp", <<>>, <<LabelOperand("a")>>),
      InstructionStmt("", "br", <<"lt">>, <<LabelOperand("a")>>),
      InstructionStmt("", "jmp", <<>>, <<LabelOperand("nowhere")>>),
      InstructionStmt("", "mov", <<>>, <<RegisterOperand(r1), IntegerOperand(5)>>),
      InstructionStmt("", "add", <<>>,
                      <<RegisterOperand(r1), RegisterOperand(r2), IntegerOperand(-1)>>),
      InstructionStmt("a", "ret", <<>>, <<>>),
      DirectiveStmt("a", "i32", <<IntegerOperand(1)>>),
      DirectiveStmt("", "section", <<LabelOperand(".data")>>),
      DirectiveStmt("", "global", <<LabelOperand("a")>>) }

\* Data: every element width, signed and unsigned values that need
\* truncation, strings, zero, align, and labels between them.
DataLines ==
    { LabelStmt("a"),
      LabelStmt("b"),
      DirectiveStmt("", "section", <<LabelOperand(".data")>>),
      DirectiveStmt("", "i8", <<IntegerOperand(-1), IntegerOperand(300)>>),
      DirectiveStmt("", "u16", <<IntegerOperand(65541)>>),
      DirectiveStmt("", "i32", <<IntegerOperand(1), IntegerOperand(2)>>),
      DirectiveStmt("", "i64", <<IntegerOperand(-2)>>),
      DirectiveStmt("", "u64", <<IntegerOperand(70000), IntegerOperand(1)>>),
      DirectiveStmt("", "f32", <<IntegerOperand(1)>>),
      DirectiveStmt("", "asciiz", <<StringOperand("Hi")>>),
      DirectiveStmt("", "zero", <<IntegerOperand(3)>>),
      DirectiveStmt("", "align", <<IntegerOperand(4)>>) }

\* Sections: the well-known names and another one, with and without
\* attribute parameters, and statements that fill them.
SectionLines ==
    { DirectiveStmt("", "section", <<LabelOperand(".text")>>),
      DirectiveStmt("", "section", <<LabelOperand(".data")>>),
      DirectiveStmt("", "section", <<LabelOperand(".bss")>>),
      DirectiveStmt("", "section", <<LabelOperand(".rodata")>>),
      DirectiveStmt("", "section", <<LabelOperand(".custom")>>),
      DirectiveStmt("", "section", <<LabelOperand(".text"), LabelOperand("Write")>>),
      DirectiveStmt("", "section", <<LabelOperand(".bss"), LabelOperand("progbits"),
                                     LabelOperand("code")>>),
      DirectiveStmt("", "section", <<LabelOperand(".custom"), LabelOperand("alloc")>>),
      InstructionStmt("", "nop", <<>>, <<>>),
      DirectiveStmt("", "zero", <<IntegerOperand(2)>>) }

\* Alignment: contents of 1, 2, 3 and 4 bytes, then align by 1, 2, 4 and 8,
\* in the implicit .text and in .data.
AlignLines ==
    { DirectiveStmt("", "i8", <<IntegerOperand(7)>>),
      DirectiveStmt("", "u16", <<IntegerOperand(7)>>),
      DirectiveStmt("", "asciiz", <<StringOperand("Hi")>>),
      InstructionStmt("", "nop", <<>>, <<>>),
      DirectiveStmt("", "section", <<LabelOperand(".data")>>),
      DirectiveStmt("", "align", <<IntegerOperand(1)>>),
      DirectiveStmt("", "align", <<IntegerOperand(2)>>),
      DirectiveStmt("", "align", <<IntegerOperand(4)>>),
      DirectiveStmt("", "align", <<IntegerOperand(8)>>) }

\* Order: two sections besides the implicit .text, two labels, and
\* statements that fill the current section.
OrderLines ==
    { DirectiveStmt("", "section", <<LabelOperand(".data")>>),
      DirectiveStmt("", "section", <<LabelOperand(".bss")>>),
      DirectiveStmt("", "zero", <<IntegerOperand(1)>>),
      InstructionStmt("", "nop", <<>>, <<>>),
      LabelStmt("a"),
      LabelStmt("b") }

\* The walks of a table of three sections and of two symbols that a build's
\* hash table can produce: every order of the names in use.
SectionWalks ==
    { <<".text", ".data", ".bss", ".rodata", ".custom">>,
      <<".text", ".bss", ".data", ".rodata", ".custom">>,
      <<".data", ".text", ".bss", ".rodata", ".custom">>,
      <<".data", ".bss", ".text", ".rodata", ".custom">>,
      <<".bss", ".text", ".data", ".rodata", ".custom">>,
      <<".bss", ".data", ".text", ".rodata", ".custom">> }

SymbolWalks ==
    { <<"a", "b", "main", "nowhere">>, <<"b", "a", "main", "nowhere">> }

\* Operand counts: instructions with the operand count of their mnemonic
\* and with fewer or more operands, up to four.
ArityLines ==
    { InstructionStmt("", "nop", <<>>, <<>>),
      InstructionStmt("", "nop", <<>>, <<RegisterOperand(r1)>>),
      InstructionStmt("", "push", <<>>, <<>>),
      InstructionStmt("", "push", <<>>, <<RegisterOperand(r1)>>),
      InstructionStmt("", "mov", <<>>, <<RegisterOperand(r1)>>),
      InstructionStmt("", "mov", <<>>, <<RegisterOperand(r1), IntegerOperand(5)>>),
      InstructionStmt("", "add", <<>>, <<RegisterOperand(r1), RegisterOperand(r2)>>),
      InstructionStmt("", "add", <<>>,
                      <<RegisterOperand(r1), RegisterOperand(r2), IntegerOperand(-1)>>),
      InstructionStmt("", "add", <<>>,
                      <<RegisterOperand(r1), RegisterOperand(r2), IntegerOperand(-1),
                        IntegerOperand(5)>>) }

\* References: a non-jump and a jump that name label a, the label, an
\* instruction that moves it, and a second section.
RefLines ==
    { LabelStmt("a"),
      InstructionStmt("", "nop", <<>>, <<>>),
      DirectiveStmt("", "section", <<LabelOperand(".data")>>),
      InstructionStmt("", "mov", <<>>, <<RegisterOperand(r1), LabelOperand("a")>>),
      InstructionStmt("", "jmp", <<>>, <<LabelOperand("a")>>) }

\* A reference to a, then any program: the label, if there is one, follows
\* the first reference.
RefPrograms ==
    { <<InstructionStmt("", "mov", <<>>, <<RegisterOperand(r1), LabelOperand("a")>>)>> \o p :
          p \in Programs(RefLines) }

\* Conditions: branches with no, one and two condition codes, and with a
\* parameter that is no condition code.
FlagLines ==
    { InstructionStmt("", "nop", <<>>, <<>>),
      InstructionStmt("", "br", <<>>, <<IntegerOperand(5)>>),
      InstructionStmt("", "br", <<"eq">>, <<IntegerOperand(5)>>),
      InstructionStmt("", "br", <<"lte">>, <<IntegerOperand(5)>>),
      InstructionStmt("", "br", <<"eq", "lt">>, <<IntegerOperand(5)>>),
      InstructionStmt("", "br", <<"gt", "neq">>, <<IntegerOperand(5)>>),
      InstructionStmt("", "br", <<"gte", "far">>, <<IntegerOperand(5)>>) }

\* Repeated invocations: lines that parse and a line that does not.
r70000 == <<"r", "7", "0", "0", "0", "0">>

\* Encoding: instructions of 0..3 operands of every operand kind, memory
\* references whose offset or base register does not fit 16 bits.
EncodeLines ==
    { LabelStmt("a"),
      InstructionStmt("", "nop", <<>>, <<>>),
      InstructionStmt("", "push", <<>>, <<IntegerOperand(-2)>>),
      InstructionStmt("", "jmp", <<>>, <<LabelOperand("a")>>),
      InstructionStmt("", "mov", <<>>, <<RegisterOperand(r1), IntegerOperand(5)>>),
      InstructionStmt("", "add", <<>>,
                      <<RegisterOperand(r1), RegisterOperand(r2), IntegerOperand(-1)>>),
      InstructionStmt("", "load", <<>>, <<RegisterOperand(r1), MemoryOperand(r2, 8)>>),
      InstructionStmt("", "store", <<>>, <<MemoryOperand(r1, -4), RegisterOperand(r2)>>),
      InstructionStmt("", "load", <<>>, <<RegisterOperand(r1), MemoryOperand(r2, 40000)>>),
      InstructionStmt("", "load", <<>>, <<RegisterOperand(r1), MemoryOperand(r2, -40000)>>),
      InstructionStmt("", "load", <<>>, <<RegisterOperand(r1), MemoryOperand(r70000, 0)>>) }

\* Alignments the code rejects (0, 3, 6) next to one it accepts, with data
\* and code around them.
BadAlignLines ==
    { DirectiveStmt("", "i8", <<IntegerOperand(7)>>),
      DirectiveStmt("", "asciiz", <<StringOperand("Hi")>>),
      InstructionStmt("", "nop", <<>>, <<>>),
      DirectiveStmt("", "section", <<LabelOperand(".data")>>),
      DirectiveStmt("", "align", <<IntegerOperand(0)>>),
      DirectiveStmt("", "align", <<IntegerOperand(3)>>),
      DirectiveStmt("", "align", <<IntegerOperand(6)>>),
      DirectiveStmt("", "align", <<IntegerOperand(4)>>) }

\* Layout: section switches, labels and one valid data directive of every
\* element width, both string forms, zero and align.
LayoutLines ==
    { LabelStmt("a"),
      LabelStmt("b"),
      DirectiveStmt("", "section", <<LabelOperand(".data")>>),
      DirectiveStmt("", "i8", <<IntegerOperand(-1), IntegerOperand(300)>>),
      DirectiveStmt("", "u16", <<IntegerOperand(65541)>>),
      DirectiveStmt("", "i32", <<IntegerOperand(1)>>),
      DirectiveStmt("", "u64", <<IntegerOperand(70000)>>),
      DirectiveStmt("", "f32", <<IntegerOperand(1)>>),
      DirectiveStmt("", "f64", <<IntegerOperand(2)>>),
      DirectiveStmt("", "ascii", <<StringOperand("Hi")>>),
      DirectiveStmt("", "asciiz", <<StringOperand("Hi")>>),
      DirectiveStmt("", "zero", <<IntegerOperand(3)>>),
      DirectiveStmt("", "align", <<IntegerOperand(4)>>) }

\* Texts over an alphabet of characters, of at most n characters.
Texts(alphabet, n) == UNION {[1..k -> alphabet] : k \in 0..n}

\* Immediates $<i|f><base><body>: every body of at most MaxBody characters
\* over digits of each base, a sign, a point and characters that are no digit.
ImmediateTexts ==
    { <<"$", f, b>> \o body :
        f \in {"i", "f"}, b \in {"d", "x", "b", "o"},
        body \in Texts({"-", "0", "1", "7", "a", "z", "."}, MaxBody) }

\* Memory references: something before the register, a register or what
\* stands in its place, and at most MaxBody characters behind it; with both
\* brackets, and with one of them missing.
MemoryRefTexts ==
    { open \o pre \o reg \o post \o close :
        open \in {<<"[">>, <<>>}, close \in {<<"]">>, <<>>},
        pre \in {<<>>, <<"x">>},
        reg \in {<<"%", "r", "2">>, <<"%", "z">>, <<"%">>, <<"r", "2">>},
        post \in Texts({"+", "-", "8", "z", "*"}, MaxBody) }

\* Lines as token vectors: an instruction, bare, with an operand before, or
\* behind a label, followed by at most MaxTokens tokens of a memory operand
\* in any order; and a comment, a label, a directive and a stray token.
OperandTokens ==
    { Token("LBracket", "["), Token("RBracket", "]"), Token("Register", "r2"),
      Token("Plus", "+"), Token("Minus", "-"), Token("Integer", "8") }

TokenLines ==
    { head \o rest :
        head \in { <<Token("Identifier", "load")>>,
                   <<Token("Identifier", "load"), Token("Register", "r1"),
                     Token("Comma", ",")>>,
                   <<Token("Identifier", "a"), Token("Colon", ":"),
                     Token("Identifier", "store")>> },
        rest \in Texts(OperandTokens, MaxTokens) }
    \cup
    { <<>>,
      <<Token("Comment", "; c")>>,
      <<Token("Identifier", "a"), Token("Colon", ":")>>,
      <<Token("Directive", ".i32"), Token("Integer", "8")>>,
      <<Token("Comma", ",")>>,
      <<Token("Identifier", "push"), Token("Register", "r2.i32")>>,
      <<Token("Identifier", "push"), Token("Register", "r2.zz")>>,
      <<Token("Identifier", "push"), Token("String", "\"s\"")>>,
      <<Token("Identifier", "push"), Token("Integer", "99999999999")>>,
      <<Token("Identifier", "load"), Token("LBracket", "["), Token("Register", "r2"),
        Token("Plus", "+"), Token("Integer", "99999999999"), Token("RBracket", "]")>>,
      <<Token("Identifier", "jump"), Token("Identifier", "a"), Token("Comment", "; c")>> }

RepeatLines ==
    { InvalidLine,
      LabelStmt("a"),
      InstructionStmt("", "nop", <<>>, <<>>),
      InstructionStmt("", "jmp", <<>>, <<LabelOperand("a")>>),
      DirectiveStmt("", "global", <<LabelOperand("b")>>) }

\* The state after the Assembler is constructed, before any invocation.
\* A default-constructed CodeGenerator.
NewCodeGenerator ==
    [initialized |-> FALSE, symbols |-> EmptyMap, sections |-> EmptyMap,
     current_section |-> ""]

InitAssembler(sources, calls, allows, sectionWalks, symbolWalks) ==
    /\ source \in sources
    /\ callsLeft = calls
    /\ allowUnresolvedSymbols \in allows
    /\ sectionWalk \in sectionWalks
    /\ symbolWalk \in symbolWalks
    /\ pc = "idle"
    /\ statements = <<>>
    /\ idx = 1
    /\ m_sections = EmptyMap
    /\ m_symbols = EmptyMap
    /\ m_relocations = <<>>
    /\ m_currentSection = ""
    /\ m_errors = <<>>
    /\ object = EmptyObject
    /\ emitted = <<>>
    /\ returns = <<>>

\* An Assembler and its source; no front-end component is exercised.
InitProgram(sources, calls, allows, sectionWalks, symbolWalks) ==
    /\ InitAssembler(sources, calls, allows, sectionWalks, symbolWalks)
    /\ input = <<>>
    /\ outcome = <<>>
    /\ codegen = NewCodeGenerator

\* A front-end component and its input; the Assembler is never invoked.
InitComponent(texts) ==
    /\ InitAssembler({<<>>}, 0, {FALSE}, {SectionNames}, {SymbolNames})
    /\ input \in texts
    /\ outcome = <<>>
    /\ codegen = NewCodeGenerator

InitWith(alphabet, calls, allows) ==
    InitProgram(Programs(alphabet), calls, allows, {SectionNames}, {SymbolNames})

Init == InitWith(CodeLines, 1, {FALSE})
Spec == Init /\ [][Next]_vars

InitData == InitWith(DataLines, 1, {FALSE})
SpecData == InitData /\ [][Next]_vars

InitSections == InitWith(SectionLines, 1, {FALSE})
SpecSections == InitSections /\ [][Next]_vars

InitAlign == InitWith(AlignLines, 1, {FALSE})
SpecAlign == InitAlign /\ [][Next]_vars

InitOrder == InitProgram(Programs(OrderLines), 1, {FALSE}, SectionWalks, SymbolWalks)
SpecOrder == InitOrder /\ [][Next]_vars

InitArity == InitWith(ArityLines, 1, {FALSE})
SpecArity == InitArity /\ [][Next]_vars

InitRefs == InitProgram(RefPrograms, 1, {FALSE}, {SectionNames}, {SymbolNames})
SpecRefs == InitRefs /\ [][Next]_vars

InitFlags == InitWith(FlagLines, 1, {FALSE})
SpecFlags == InitFlags /\ [][Next]_vars

InitRepeat == InitWith(RepeatLines, MaxCalls, BOOLEAN)
SpecRepeat == InitRepeat /\ [][Next]_vars

InitBadAlign == InitWith(BadAlignLines, 1, {FALSE})
SpecBadAlign == InitBadAlign /\ [][Next]_vars

InitLayout == InitWith(LayoutLines, 1, {FALSE})
SpecLayout == InitLayout /\ [][Next]_vars

InitImmediate == InitComponent(ImmediateTexts)
SpecImmediate == InitImmediate /\ [][NextImmediate]_vars

InitMemoryRef == InitComponent(MemoryRefTexts)
SpecMemoryRef == InitMemoryRef /\ [][NextMemoryRef]_vars

InitParseLine == InitComponent(TokenLines)
SpecParseLine == InitParseLine /\ [][NextParseLine]_vars

InitCodegen == InitComponent({<<>>})
SpecCodegen == InitCodegen /\ [][NextCodegen]_vars

InitEncode == InitWith(EncodeLines, 1, {FALSE})
SpecEncode == InitEncode /\ [][Next]_vars

-----------------------------------------------------------------------------
(* Vocabulary of the properties.                                            *)

\* The last invocation has returned.
Finished == pc = "returned" /\ callsLeft = 0

\* The last invocation ran both passes and generateObject to the end.
Completed ==
    /\ Finished
    /\ Parse(source).errors = <<>>
    /\ Len(emitted) = Len(statements)

Range(seq) == {seq[i] : i \in DOMAIN seq}

LabelNames == {"a", "b"}

\* Statement stmt carries a definition of label name.
DefinesLabel(stmt, name) ==
    stmt.label = name /\ stmt.type \in {"Label", "Instruction", "Directive"}

Definitions(name) == {k \in DOMAIN statements : DefinesLabel(statements[k], name)}

NamedGlobal(name) ==
    \E k \in DOMAIN statements :
        /\ statements[k].type = "Directive"
        /\ statements[k].name = "global"
        /\ statements[k].operands # <<>>
        /\ statements[k].operands[1] = LabelOperand(name)

\* The n bytes that follow the first `from` bytes of a section's data.
Slice(data, from, n) == [i \in 1..n |-> data[from + i]]

\* The bytes statement k appended in pass 2 (data only grows during pass 2).
EmittedBytes(k) ==
    Slice(m_sections[emitted[k].section].data, emitted[k].offset, emitted[k].size)

\* The signed 32-bit number four little-endian bytes stand for.
DecodeSigned32(b) ==
    b[1] + 256 * b[2] + 65536 * b[3]
    + 16777216 * (IF b[4] >= 128 THEN b[4] - 256 ELSE b[4])

-----------------------------------------------------------------------------
(* C1: a statement list that defines the same label name twice records      *)
(* exactly one diagnostic for the duplicate definition.                     *)
C1_DuplicateLabelOneDiagnostic ==
    Finished =>
        \A name \in LabelNames :
            Cardinality(Definitions(name)) >= 2 =>
                Cardinality({i \in DOMAIN m_errors :
                    m_errors[i] = <<"Assembly error: Symbol already defined: ", name>>}) = 1

(* C2: a duplicate label definition does not abort the assembly: all        *)
(* statements are processed in both passes and the returned object holds    *)
(* the non-empty sections of the program.                                   *)
C2_DuplicateDoesNotAbort ==
    (Finished /\ \E name \in LabelNames :
         <<"Assembly error: Symbol already defined: ", name>> \in Range(m_errors))
    => /\ Len(emitted) = Len(statements)
       /\ (\E k \in DOMAIN statements : statements[k].type = "Instruction")
              => DOMAIN object.sections # {}

\* Operand j of statement k is a label operand of an instruction naming a
\* symbol that no label defines and no .global names.
UndefinedReference(k, j) ==
    /\ statements[k].type = "Instruction"
    /\ j \in DOMAIN statements[k].operands
    /\ statements[k].operands[j].type = "Label"
    /\ Definitions(statements[k].operands[j].text) = {}
    /\ ~NamedGlobal(statements[k].operands[j].text)

(* C3: with allowUnresolvedSymbols = FALSE, a label operand naming a symbol *)
(* that is never defined yields a diagnostic naming the symbol as           *)
(* undefined, and the operand's payload is four zero bytes.                 *)
C3_UndefinedSymbolDiagnosed ==
    (Completed /\ ~allowUnresolvedSymbols) =>
        \A k \in DOMAIN statements : \A j \in 1..3 :
            UndefinedReference(k, j) =>
                /\ <<"Undefined symbol: ", statements[k].operands[j].text>> \in Range(m_errors)
                /\ k <= Len(emitted) /\ emitted[k].size >= 4 + 4 * j
                       => Slice(EmittedBytes(k), 4 * j, 4) = <<0, 0, 0, 0>>

JumpMnemonics == {"jmp", "br", "call"}

\* Statement k is a jump to label name; statement t is the one definition
\* of name, by a label-only statement or a labelled instruction, and both
\* were emitted into the same section.
JumpToLabel(k, t) ==
    /\ statements[k].type = "Instruction"
    /\ statements[k].name \in JumpMnemonics
    /\ Len(statements[k].operands) = 1
    /\ statements[k].operands[1].type = "Label"
    /\ Definitions(statements[k].operands[1].text) = {t}
    /\ statements[t].type \in {"Label", "Instruction"}
    /\ emitted[k].section = emitted[t].section

(* C4: the payload of a jump at final offset O to a label at final offset T *)
(* of the same section is T - (O + 4), for backward and forward references. *)
C4_JumpPayloadIsRelative ==
    Completed =>
        \A k \in DOMAIN statements : \A t \in DOMAIN statements :
            JumpToLabel(k, t) =>
                DecodeSigned32(Slice(EmittedBytes(k), 4, 4))
                    = emitted[t].offset - (emitted[k].offset + 4)

(* C6: two invocations of assembleSource on the same source return equal    *)
(* objects and equal diagnostic lists.                                      *)
C6_Deterministic ==
    \A i \in DOMAIN returns : \A j \in DOMAIN returns : returns[i] = returns[j]

(* C8: every instruction emitted in pass 2 occupies exactly the 8 bytes     *)
(* pass 1 reserved for it.                                                  *)
C8_InstructionsAreEightBytes ==
    pc \in {"generateCode", "returned"} =>
        \A k \in DOMAIN emitted :
            statements[k].type = "Instruction" => emitted[k].size = InstructionEstimate

-----------------------------------------------------------------------------
(* Layout of a statement list, read off the statements alone.               *)

IsSectionDirective(stmt) ==
    stmt.type = "Directive" /\ stmt.name = "section" /\ stmt.operands # <<>>

Greatest(S) == CHOOSE x \in S : \A y \in S : y <= x

\* The section that is current when statement k is reached.
SectionAt(k) ==
    LET before == {j \in 1..(k - 1) : IsSectionDirective(statements[j])}
    IN  IF before = {} THEN ".text" ELSE statements[Greatest(before)].operands[1].text

DataDirectiveNames ==
    {"i8", "i16", "i32", "i64", "u8", "u16", "u32", "u64", "f32", "f64",
     "ascii", "asciiz", "zero", "align"}

\* Every statement placed in section sec is a label, Empty or a data directive.
HoldsOnlyData(sec) ==
    \A j \in DOMAIN statements :
        (SectionAt(j) = sec /\ ~IsSectionDirective(statements[j])) =>
            \/ statements[j].type \in {"Label", "Empty"}
            \/ statements[j].type = "Directive" /\ statements[j].name \in DataDirectiveNames

RECURSIVE BytesBefore(_, _)
\* The bytes pass 2 appended to section sec while handling statements 1..n.
BytesBefore(sec, n) ==
    IF n = 0 THEN 0
    ELSE BytesBefore(sec, n - 1)
         + (IF emitted[n].section = sec THEN emitted[n].size ELSE 0)

(* C5: a label defined by a label-only statement in a section that holds    *)
(* only data directives has, when assembly finishes, the number of bytes    *)
(* emitted into that section before it as value, and the section current at *)
(* its definition as section.                                               *)
C5_DataLabelOffsets ==
    Completed =>
        \A k \in DOMAIN statements :
            (statements[k].type = "Label" /\ HoldsOnlyData(SectionAt(k))) =>
                LET L == statements[k].label
                IN  /\ Has(m_symbols, L)
                    /\ m_symbols[L].defined
                    /\ m_symbols[L].value = BytesBefore(SectionAt(k), k - 1)
                    /\ m_symbols[L].section = SectionAt(k)
                    /\ Has(object.symbols, L) =>
                           /\ object.symbols[L].value = BytesBefore(SectionAt(k), k - 1)
                           /\ object.symbols[L].section = SectionAt(k)

C5_Witness ==
    /\ Completed
    /\ \E k \in DOMAIN statements :
           /\ statements[k] = LabelStmt("a")
           /\ SectionAt(k) = ".data"
           /\ BytesBefore(".data", k - 1) > 0
           /\ Has(object.symbols, "a")
           /\ object.symbols["a"].value = BytesBefore(".data", k - 1)

(* C7: a symbol named by .global and defined by a label ends with binding   *)
(* Global, the section current at its label and the label's offset, whether *)
(* .global precedes or follows the label.                                   *)
C7_GlobalLabels ==
    Finished =>
        \A g \in LabelNames :
            (NamedGlobal(g) /\ Definitions(g) # {}) =>
                /\ Completed =>
                       /\ Has(m_symbols, g)
                       /\ m_symbols[g].binding = "Global"
                       /\ \E k \in Definitions(g) :
                              /\ m_symbols[g].section = emitted[k].section
                              /\ m_symbols[g].value = emitted[k].offset
                /\ Has(object.symbols, g) =>
                       /\ object.symbols[g].binding = "Global"
                       /\ \E k \in Definitions(g) :
                              /\ object.symbols[g].section = emitted[k].section
                              /\ object.symbols[g].value = emitted[k].offset

\* .global @a comes first, the label a later at a non-zero offset.
C7_Witness ==
    /\ Completed
    /\ \E j \in DOMAIN statements : \E k \in DOMAIN statements :
           /\ j < k
           /\ statements[j] = DirectiveStmt("", "global", <<LabelOperand("a")>>)
           /\ Definitions("a") = {k}
           /\ emitted[k].offset > 0
    /\ Has(object.symbols, "a")
    /\ object.symbols["a"].binding = "Global"

IntegerDirectiveWidth(name) ==
    CASE name \in {"i8", "u8"}   -> 1
      [] name \in {"i16", "u16"} -> 2
      [] name \in {"i32", "u32"} -> 4
      [] name \in {"i64", "u64"} -> 8
      [] OTHER                   -> 0

IsIntegerData(stmt) ==
    /\ stmt.type = "Directive"
    /\ IntegerDirectiveWidth(stmt.name) > 0
    /\ \A j \in DOMAIN stmt.operands :
           stmt.operands[j].type = "Immediate" /\ stmt.operands[j].format = "Integer"

\* Bytes b are v modulo 2^(8w), least significant byte first.  For a v that
\* fits 32 bits, the 4-byte pattern of v mod 2^32 is the one whose signed
\* reading is v, and the 8-byte pattern adds four bytes of sign.
Represents(b, v, w) ==
    /\ Len(b) = w
    /\ \A i \in 1..w : b[i] \in 0..255
    /\ CASE w = 1 -> b[1] = v % 256
         [] w = 2 -> b[1] + 256 * b[2] = v % 65536
         [] w = 4 -> DecodeSigned32(b) = v
         [] w = 8 -> /\ DecodeSigned32(Slice(b, 0, 4)) = v
                     /\ \A i \in 5..8 : b[i] = IF v < 0 THEN 255 ELSE 0

(* C9: a data directive of element width w with k integer operands appends  *)
(* k*w bytes: each operand modulo 2^(8w), least significant byte first, in  *)
(* source order; .i32 1, 2 appends 01 00 00 00 02 00 00 00.                 *)
C9_DataDirectiveBytes ==
    pc \in {"generateCode", "returned"} =>
        \A k \in DOMAIN emitted :
            IsIntegerData(statements[k]) =>
                LET ops == statements[k].operands
                    w   == IntegerDirectiveWidth(statements[k].name)
                IN  /\ emitted[k].size = Len(ops) * w
                    /\ \A j \in DOMAIN ops :
                           Represents(Slice(EmittedBytes(k), (j - 1) * w, w),
                                      ops[j].value, w)
                    /\ (statements[k].name = "i32"
                        /\ ops = <<IntegerOperand(1), IntegerOperand(2)>>)
                           => EmittedBytes(k) = <<1, 0, 0, 0, 2, 0, 0, 0>>

\* .section .data, .i32 1, 2 gives a .data section of exactly those 8 bytes.
C9_Witness ==
    /\ Completed
    /\ Has(object.sections, ".data")
    /\ object.sections[".data"].data = <<1, 0, 0, 0, 2, 0, 0, 0>>
    /\ \E k \in DOMAIN statements : statements[k].name = "i32"

WellKnownSections == {".text", ".data", ".bss", ".rodata"}

DefaultKind(name) == IF name = ".bss" THEN "NoBits" ELSE "ProgBits"

DefaultFlags(name) ==
    CASE name = ".text"   -> {"Code", "Alloc"}
      [] name = ".data"   -> {"Write", "Alloc"}
      [] name = ".bss"    -> {"Write", "Alloc"}
      [] name = ".rodata" -> {"Alloc"}

\* A section directive with an attribute parameter has been handled for name.
ReceivedParameter(name) ==
    \E k \in 1..(IF pc = "collectSymbols" THEN idx - 1 ELSE Len(statements)) :
        /\ IsSectionDirective(statements[k])
        /\ statements[k].operands[1].text = name
        /\ Len(statements[k].operands) >= 2

SectionDefaultsHold ==
    pc \in {"collectSymbols", "generateCode", "returned"} =>
        /\ \A n \in WellKnownSections \cap DOMAIN m_sections :
               ~ReceivedParameter(n) =>
                   /\ m_sections[n].type = DefaultKind(n)
                   /\ m_sections[n].flags = DefaultFlags(n)
        /\ \A n \in WellKnownSections \cap DOMAIN object.sections :
               ~ReceivedParameter(n) =>
                   /\ object.sections[n].type = DefaultKind(n)
                   /\ object.sections[n].flags = DefaultFlags(n)

\* The step from pass 1 to pass 2 keeps every section's kind and flags.
ResetKeepsAttributes ==
    (pc = "collectSymbols" /\ pc' = "generateCode") =>
        \A n \in DOMAIN m_sections :
            /\ n \in DOMAIN m_sections'
            /\ m_sections'[n].type = m_sections[n].type
            /\ m_sections'[n].flags = m_sections[n].flags

(* C10: a well-known section that received no attribute parameter has its   *)
(* default kind and exactly its default flags in every state of both passes *)
(* and in the final object; the reset between the passes changes neither    *)
(* kind nor flags of any section.                                           *)
C10_SectionDefaults == []SectionDefaultsHold /\ [][ResetKeepsAttributes]_vars

\* After the reset, .bss and .text both exist, unattributed; and later the
\* object holds a NoBits .bss.
C10_Witness ==
    /\ pc = "returned"
    /\ Has(object.sections, ".bss")
    /\ ~ReceivedParameter(".bss")
    /\ object.sections[".bss"].type = "NoBits"
    /\ object.sections[".bss"].flags = {"Write", "Alloc"}
    /\ Has(m_sections, ".text")

-----------------------------------------------------------------------------
\* Statement k is align N for a power of two N.
IsAlign(k) ==
    /\ k \in DOMAIN statements
    /\ statements[k].type = "Directive"
    /\ statements[k].name = "align"
    /\ Len(statements[k].operands) = 1
    /\ statements[k].operands[1].format = "Integer"
    /\ statements[k].operands[1].value \in {1, 2, 4, 8}

\* This step handles statement idx, in pass 1 or in pass 2.
HandlesStatement ==
    /\ pc \in {"collectSymbols", "generateCode"}
    /\ pc' = pc
    /\ idx' = idx + 1

\* A step that handles align N leaves the offset a multiple of N and
\* appended zero bytes only: as many as the offset moved in pass 2, none in
\* pass 1; right after another align N it changes nothing.
AlignStep ==
    (HandlesStatement /\ IsAlign(idx)) =>
        LET N      == statements[idx].operands[1].value
            before == m_sections[m_currentSection]
            after  == m_sections'[m_currentSection]
            moved  == after.currentOffset - before.currentOffset
        IN  /\ m_currentSection' = m_currentSection
            /\ after.currentOffset % N = 0
            /\ moved \in 0..(N - 1)
            /\ after.data = before.data
                            \o Zeros(IF pc = "generateCode" THEN moved ELSE 0)
            /\ (IsAlign(idx - 1) /\ statements[idx - 1] = statements[idx])
                   => m_sections' = m_sections

(* C11: processing align N twice in a row leaves the section with the same  *)
(* bytes and the same current offset as processing it once; after align N   *)
(* the offset is a multiple of N and only zero bytes were appended.         *)
C11_AlignIdempotent == [][AlignStep]_vars

\* In pass 2, align N padded a misaligned section and the same align N has
\* just been handled again without appending anything.
C11_Witness ==
    /\ pc = "generateCode"
    /\ idx >= 4
    /\ IsAlign(idx - 1)
    /\ statements[idx - 2] = statements[idx - 1]
    /\ emitted[idx - 2].size > 0
    /\ emitted[idx - 1].size = 0
    /\ m_sections[m_currentSection].currentOffset
           = emitted[idx - 2].offset + emitted[idx - 2].size

-----------------------------------------------------------------------------
\* The first statement that uses section sec: a section directive naming
\* it, or a statement placed in it; 0 when there is none.
FirstUse(sec) ==
    LET uses == {k \in DOMAIN statements :
                    IF IsSectionDirective(statements[k])
                    THEN statements[k].operands[1].text = sec
                    ELSE SectionAt(k) = sec}
    IN  IF uses = {} THEN 0 ELSE CHOOSE k \in uses : \A j \in uses : k <= j

\* The first statement that defines label name; 0 when there is none.
FirstDefinition(name) ==
    IF Definitions(name) = {} THEN 0
    ELSE CHOOSE k \in Definitions(name) : \A j \in Definitions(name) : k <= j

(* C12: the sections of the object appear in the order in which the source  *)
(* first used them, and the symbols in the order of their first definition. *)
C12_SourceOrderPreserved ==
    Completed =>
        /\ \A i \in DOMAIN object.sectionOrder : \A j \in DOMAIN object.sectionOrder :
               i < j => FirstUse(object.sectionOrder[i]) < FirstUse(object.sectionOrder[j])
        /\ \A i \in DOMAIN object.symbolOrder : \A j \in DOMAIN object.symbolOrder :
               i < j => FirstDefinition(object.symbolOrder[i])
                            < FirstDefinition(object.symbolOrder[j])

-----------------------------------------------------------------------------
\* What the round trip compares of an instruction: mnemonic, parameters,
\* operand kinds and operand values; label names are left out.
InstructionShape(stmt) ==
    [name |-> stmt.name, params |-> stmt.params,
     operands |-> [i \in DOMAIN stmt.operands |->
                      [type   |-> stmt.operands[i].type,
                       format |-> stmt.operands[i].format,
                       value  |-> stmt.operands[i].value,
                       chars  |-> stmt.operands[i].chars]]]

\* The instructions of a statement stream, in order.
InstructionStream(stmts) ==
    LET instrs == SelectSeq(stmts, LAMBDA x : x.type = "Instruction")
    IN  [i \in DOMAIN instrs |-> InstructionShape(instrs[i])]

(* C13: for a program that assembles without diagnostics, parsing the       *)
(* disassembly of the object gives the instruction stream of the original   *)
(* program: same mnemonics, parameters, operand kinds and values in order.  *)
(* Programs that refer to undefined labels are left aside.                  *)
C13_RoundTrip ==
    (Completed /\ m_errors = <<>> /\ m_relocations = <<>>) =>
        InstructionStream(Parse(Disassemble(object)).statements)
            = InstructionStream(statements)

-----------------------------------------------------------------------------
\* Non-empty as the object sees it: data bytes, or reserved space for NoBits.
NonEmpty(section) ==
    \/ section.type = "ProgBits" /\ Len(section.data) >= 1
    \/ section.type = "NoBits" /\ section.currentOffset > 0

\* The statement list holds no instruction and no data directive.
HoldsNoCodeOrData ==
    \A k \in DOMAIN statements :
        \/ statements[k].type \in {"Label", "Empty"}
        \/ statements[k].type = "Directive" /\ statements[k].name \in {"section", "global"}

\* A section is in the object exactly when it is non-empty after pass 2.
EmittedIffNonEmpty ==
    Completed =>
        /\ DOMAIN object.sections \subseteq DOMAIN m_sections
        /\ \A n \in DOMAIN m_sections :
               Has(object.sections, n) <=> NonEmpty(m_sections[n])

(* C14: a section is emitted into the object if and only if it is non-empty *)
(* when pass 2 ends; a source without instructions and data directives      *)
(* yields zero sections and an empty diagnostic list, although .text was    *)
(* created.                                                                 *)
C14_OnlyNonEmptySections ==
    /\ EmittedIffNonEmpty
    /\ (Completed /\ HoldsNoCodeOrData) =>
           /\ Has(m_sections, ".text")
           /\ DOMAIN object.sections = {}
           /\ m_errors = <<>>

-----------------------------------------------------------------------------
(* C15: when assembly finishes without an exception, every defined symbol   *)
(* names a section of the section table and its value is at most that       *)
(* section's final current offset.                                          *)
C15_DefinedSymbolsInRange ==
    Completed =>
        \A name \in DOMAIN m_symbols :
            m_symbols[name].defined =>
                /\ Has(m_sections, m_symbols[name].section)
                /\ m_symbols[name].value >= 0
                /\ m_symbols[name].value
                       <= m_sections[m_symbols[name].section].currentOffset

\* A label attached to an instruction that is neither first nor last in its
\* section: its value lies strictly inside the section.
C15_Witness ==
    /\ Completed
    /\ \E k \in DOMAIN statements :
           /\ statements[k].type = "Instruction"
           /\ statements[k].label = "a"
    /\ Has(m_symbols, "a")
    /\ m_symbols["a"].defined
    /\ m_symbols["a"].value > 0
    /\ m_symbols["a"].value < m_sections[m_symbols["a"].section].currentOffset

-----------------------------------------------------------------------------
(* C16: in every reachable state a section of kind NoBits has empty data;   *)
(* directives processed while it is current only advance its offset.        *)
C16_NoBitsHoldsNoData ==
    \A n \in DOMAIN m_sections :
        m_sections[n].type = "NoBits" => m_sections[n].data = <<>>

-----------------------------------------------------------------------------
\* The operand count a mnemonic requires; -1 when the table has none.
RequiredOperands(name) ==
    CASE name \in {"nop", "ret"} -> 0
      [] name \in {"jmp", "br", "call", "push", "pop", "inc", "dec", "neg", "not"} -> 1
      [] name \in {"mov", "load", "store", "cmp", "test"} -> 2
      [] name \in {"add", "sub", "mul", "div", "rem", "and", "or", "xor",
                   "shl", "shr", "sar"} -> 3
      [] OTHER -> -1

\* This step is pass 2 handling an instruction with a wrong operand count.
HandlesWrongArity ==
    /\ pc = "generateCode"
    /\ pc' = pc
    /\ idx' = idx + 1
    /\ statements[idx].type = "Instruction"
    /\ RequiredOperands(statements[idx].name) >= 0
    /\ Len(statements[idx].operands) # RequiredOperands(statements[idx].name)

(* C17: an instruction whose operand count differs from the count its       *)
(* mnemonic requires produces a diagnostic and appends no bytes to the      *)
(* current section.                                                         *)
C17_WrongArityRejected ==
    [][HandlesWrongArity =>
           /\ Len(m_errors') > Len(m_errors)
           /\ m_sections' = m_sections]_vars

-----------------------------------------------------------------------------
\* This step is pass 2 handling an instruction whose operand j is a label.
HandlesLabelOperand(j) ==
    /\ pc = "generateCode"
    /\ pc' = pc
    /\ idx' = idx + 1
    /\ statements[idx].type = "Instruction"
    /\ j \in DOMAIN statements[idx].operands
    /\ statements[idx].operands[j].type = "Label"

\* The step wrote four zero bytes as the payload of operand j and recorded
\* one relocation for it.
RecordsRelocation(j) ==
    LET sec   == m_currentSection
        start == Len(m_sections[sec].data)
        site  == start + 4 * j
    IN  /\ Len(m_sections'[sec].data) >= site + 4
        /\ Slice(m_sections'[sec].data, site, 4) = <<0, 0, 0, 0>>
        /\ Len(m_relocations') = Len(m_relocations) + 1
        /\ LET reloc == m_relocations'[Len(m_relocations')]
           IN  /\ reloc.symbolName = statements[idx].operands[j].text
               /\ reloc.sectionName = sec
               /\ reloc.offset = site
               /\ reloc.size = 4
               /\ reloc.addend = 0
               /\ reloc.isRelative <=> statements[idx].name \in JumpMnemonics

(* C18: for every instruction with a label operand the encoder writes four  *)
(* zero bytes as payload and records one relocation for the current section *)
(* at the payload's offset, size 4, addend 0, isRelative exactly for jmp,   *)
(* br and call, whether or not the symbol is already defined.               *)
C18_LabelOperandRelocated ==
    [][\A j \in 1..3 : HandlesLabelOperand(j) => RecordsRelocation(j)]_vars

-----------------------------------------------------------------------------
\* Operand j of the non-jump instruction k names a label that statement t
\* alone defines, in another section than the one of k.
RefersAcrossSections(k, j, t) ==
    /\ statements[k].type = "Instruction"
    /\ statements[k].name \notin JumpMnemonics
    /\ j \in DOMAIN statements[k].operands
    /\ statements[k].operands[j].type = "Label"
    /\ Definitions(statements[k].operands[j].text) = {t}
    /\ emitted[t].section # emitted[k].section

(* C19: the payload of a non-jump instruction whose label operand names a   *)
(* symbol of a different section is the symbol's final value, also when the *)
(* symbol's section comes later in the source and holds instructions before *)
(* the symbol.                                                              *)
C19_AbsolutePayloadIsFinalValue ==
    Completed =>
        \A k \in DOMAIN statements : \A t \in DOMAIN statements : \A j \in 1..3 :
            RefersAcrossSections(k, j, t) =>
                DecodeSigned32(Slice(EmittedBytes(k), 4 * j, 4)) = emitted[t].offset

\* The same, for symbols defined before the instruction that names them.
AbsolutePayloadOfEarlierSymbol ==
    Completed =>
        \A k \in DOMAIN statements : \A t \in DOMAIN statements : \A j \in 1..3 :
            (RefersAcrossSections(k, j, t) /\ t < k) =>
                DecodeSigned32(Slice(EmittedBytes(k), 4 * j, 4)) = emitted[t].offset

-----------------------------------------------------------------------------
ConditionCode(param) ==
    CASE param = "eq" -> 1 [] param = "neq" -> 2 [] param = "gt" -> 3
      [] param = "gte" -> 4 [] param = "lt" -> 5 [] param = "lte" -> 6
      [] OTHER -> 0

(* C20: byte 1 of every encoded instruction is the condition code of the    *)
(* instruction's first parameter, and 0 when it has no parameter; of        *)
(* several condition codes the first one determines it.                     *)
C20_Flag0IsFirstCondition ==
    pc \in {"generateCode", "returned"} =>
        \A k \in DOMAIN emitted :
            (statements[k].type = "Instruction" /\ emitted[k].size >= 4) =>
                EmittedBytes(k)[2] = IF statements[k].params = <<>> THEN 0
                                     ELSE ConditionCode(statements[k].params[1])

\* The same for instructions with at most one parameter.
Flag0OfSingleCondition ==
    pc \in {"generateCode", "returned"} =>
        \A k \in DOMAIN emitted :
            (statements[k].type = "Instruction" /\ emitted[k].size >= 4
             /\ Len(statements[k].params) <= 1) =>
                EmittedBytes(k)[2] = IF statements[k].params = <<>> THEN 0
                                     ELSE ConditionCode(statements[k].params[1])

-----------------------------------------------------------------------------
\* The operand type codes byte 2 may hold for an operand of the source: a
\* label is encoded as a label or, once resolved, as an immediate.
TypeCodesOf(operand) ==
    CASE operand.type = "Register"  -> {1}
      [] operand.type = "Immediate" -> {2}
      [] operand.type = "Memory"    -> {3}
      [] OTHER                      -> {2, 4}

\* The type code of operand j of a statement, 0 for an absent operand.
PackedTypeAt(byte, j) ==
    CASE j = 1 -> byte \div 16 [] j = 2 -> (byte \div 4) % 4 [] OTHER -> byte % 4

\* The register index the source names: the decimal digits after the r.
RegisterIndexOf(operand) == Stoul(Tail(operand.chars), -1)

\* Statement k was encoded as an instruction in pass 2.
Encoded(k) ==
    /\ k \in DOMAIN emitted
    /\ statements[k].type = "Instruction"
    /\ emitted[k].size > 0

HeaderAndPayloads(k) ==
    LET b   == EmittedBytes(k)
        ops == statements[k].operands
        n   == Len(ops)
    IN  /\ n <= 3
        /\ Len(b) = 4 + 4 * n
        /\ b[1] = OpcodeByte(ToLower(statements[k].name))
        /\ b[2] = Flag0Of(statements[k].params, 1, 0)
        /\ b[4] = 0
        /\ \A j \in 1..3 :
              IF j <= n THEN PackedTypeAt(b[3], j) \in TypeCodesOf(ops[j])
              ELSE PackedTypeAt(b[3], j) = 0
        /\ \A j \in 1..n :
              /\ ops[j].type = "Register" =>
                    Slice(b, 4 * j, 4) = LittleEndian(RegisterIndexOf(ops[j]), 4)
              /\ (ops[j].type = "Immediate" /\ ops[j].format = "Integer") =>
                    Slice(b, 4 * j, 4) = LittleEndian(ops[j].value, 4)

-----------------------------------------------------------------------------
\* Operand j of statement k is a memory reference the 4-byte payload cannot
\* hold: the offset is not a signed 16-bit value or the base register index
\* is not an unsigned 16-bit value.
MemoryOutOfRange(k, j) ==
    /\ statements[k].type = "Instruction"
    /\ j \in DOMAIN statements[k].operands
    /\ statements[k].operands[j].type = "Memory"
    /\ \/ statements[k].operands[j].value \notin -32768..32767
       \/ RegisterIndexOf(statements[k].operands[j]) > 65535

(* C24: once pass 2 has handled an instruction with a memory operand whose  *)
(* offset is outside [-32768, 32767] or whose base register index exceeds   *)
(* 65535, a diagnostic is recorded; no payload with the truncated offset is *)
(* emitted without one.                                                     *)
C24_MemoryRangeDiagnosed ==
    pc \in {"generateCode", "returned"} =>
        \A k \in DOMAIN emitted : \A j \in 1..3 :
            MemoryOutOfRange(k, j) => m_errors # <<>>

-----------------------------------------------------------------------------
\* The step of generateObject.
Finalizes == pc = "generateCode" /\ pc' = "returned"

\* The diagnostics the step adds.
NewDiagnostics == {m_errors'[i] : i \in (Len(m_errors) + 1)..Len(m_errors')}

\* A defined symbol whose section is not among the sections of the object.
InSectionNotEmitted(name) ==
    /\ Has(m_symbols, name)
    /\ m_symbols[name].defined
    /\ ~Has(object'.sections, m_symbols[name].section)

(* C22: generateObject skips a defined symbol whose section was not emitted *)
(* (the section is empty): the symbol is left out of the symbol table of    *)
(* the object and the step records no diagnostic that names it.             *)
C22_NonEmittedSymbolSkippedSilently ==
    [][Finalizes =>
          \A name \in Range(SymbolNames) :
              InSectionNotEmitted(name) =>
                  /\ ~Has(object'.symbols, name)
                  /\ \A e \in NewDiagnostics : e[2] # name]_vars

-----------------------------------------------------------------------------
\* Statement k is a data directive that carries a label, and the only
\* definition of that label in the program.
LabelledDataDirective(k) ==
    /\ statements[k].type = "Directive"
    /\ statements[k].name \in DataDirectiveNames
    /\ statements[k].label # ""
    /\ Definitions(statements[k].label) = {k}

(* C23: a label attached to a data directive defines the symbol: after      *)
(* assembly the symbol exists, is defined, lies in the section current at   *)
(* the directive, and its value is the offset just before the directive's   *)
(* bytes.                                                                   *)
C23_LabelledDirectiveDefines ==
    Completed =>
        \A k \in DOMAIN statements :
            LabelledDataDirective(k) =>
                LET L == statements[k].label
                IN  /\ Has(m_symbols, L)
                    /\ m_symbols[L].defined
                    /\ m_symbols[L].section = emitted[k].section
                    /\ m_symbols[L].value = emitted[k].offset

-----------------------------------------------------------------------------
\* Statement k is align N with an integer N that is 0 or no power of two.
IsBadAlign(k) ==
    /\ k \in DOMAIN statements
    /\ statements[k].type = "Directive"
    /\ statements[k].name = "align"
    /\ Len(statements[k].operands) = 1
    /\ statements[k].operands[1].format = "Integer"
    /\ statements[k].operands[1].value \in 0..8 \ {1, 2, 4, 8}

\* The step that handles a rejected align, in either pass, adds exactly one
\* diagnostic, changes no section and goes on to the next statement.
BadAlignStep ==
    (pc \in {"collectSymbols", "generateCode"} /\ idx' # idx /\ IsBadAlign(idx)) =>
        /\ Len(m_errors') = Len(m_errors) + 1
        /\ SubSeq(m_errors', 1, Len(m_errors)) = m_errors
        /\ m_sections' = m_sections
        /\ m_currentSection' = m_currentSection
        /\ HandlesStatement

\* At the end there are two diagnostics per rejected align, one of each
\* pass, and every statement was handled by pass 2.
BadAlignTotals ==
    Completed =>
        /\ Len(m_errors) = 2 * Cardinality({k \in DOMAIN statements : IsBadAlign(k)})
        /\ \A k \in DOMAIN statements :
              ~IsBadAlign(k) /\ statements[k].type = "Directive"
              /\ statements[k].name \in {"i8", "asciiz"}
                  => emitted[k].size = (IF statements[k].name = "i8" THEN 1 ELSE 3)

(* C25: align N with N = 0 or N not a power of two records one diagnostic   *)
(* in each pass and leaves the current section's data and offset unchanged  *)
(* in both passes; the statements after it are processed as usual.          *)
C25_BadAlignSkipped == [][BadAlignStep]_vars /\ []BadAlignTotals

\* A rejected align at a misaligned offset was handled in both passes and
\* the data directive after it was emitted right behind the bytes before it.
C25_Witness ==
    /\ Completed
    /\ Len(statements) = 3
    /\ statements[1].name = "i8"
    /\ IsBadAlign(2)
    /\ statements[2].operands[1].value = 3
    /\ statements[3].name = "asciiz"
    /\ emitted[2].size = 0
    /\ emitted[3].offset = 1
    /\ Len(m_errors) = 2

-----------------------------------------------------------------------------
\* The offsets and label values of two contexts agree.
SameLayout(p, q) ==
    /\ DOMAIN p.sections = DOMAIN q.sections
    /\ \A sec \in DOMAIN p.sections :
          p.sections[sec].currentOffset = q.sections[sec].currentOffset
    /\ DOMAIN p.symbols = DOMAIN q.symbols
    /\ \A L \in DOMAIN p.symbols :
          /\ p.symbols[L].value = q.symbols[L].value
          /\ p.symbols[L].section = q.symbols[L].section
          /\ p.symbols[L].defined = q.symbols[L].defined

(* C29: for statement lists of section switches, label-only statements and  *)
(* valid data directives, every section's current offset at the end of      *)
(* pass 1 equals its current offset at the end of pass 2, and every label   *)
(* has the same value after pass 1 as after pass 2. The state between the   *)
(* passes is the one collectSymbols computes for the statement list.        *)
C29_PassesAgree ==
    /\ (pc = "collectSymbols" /\ idx > Len(statements)) =>
           /\ m_sections = CollectSymbols(statements).sections
           /\ m_symbols = CollectSymbols(statements).symbols
    /\ (pc = "generateCode" /\ idx > Len(statements)) =>
           SameLayout(CollectSymbols(statements), Context)

\* Pass 2 has ended for a program whose label lies behind a string, at an
\* offset pass 1 had to measure, with an align after it that pads.
C29_Witness ==
    /\ pc = "generateCode"
    /\ idx > Len(statements)
    /\ Len(statements) = 3
    /\ statements[1].name = "asciiz"
    /\ statements[2].type = "Label"
    /\ statements[3].name = "align"
    /\ Has(m_symbols, statements[2].label)
    /\ m_symbols[statements[2].label].value = 3
    /\ m_sections[".text"].currentOffset = 4

-----------------------------------------------------------------------------
\* The input is $i<b><body> with b one of d, x, b, o.
IsIntegerForm ==
    /\ Len(input) >= 3
    /\ input[1] = "$" /\ input[2] = "i" /\ input[3] \in {"d", "x", "b", "o"}

\* The characters after the optional leading '-'.
Unsigned(body) == IF body # <<>> /\ Head(body) = "-" THEN Tail(body) ELSE body

\* A body the form allows: at least one digit, and digits of the base only.
WellFormedBody(body, b) ==
    /\ Unsigned(body) # <<>>
    /\ \A i \in DOMAIN Unsigned(body) : DigitIn(Unsigned(body)[i], BaseNumber(b)) >= 0

RECURSIVE ReadInBase(_, _, _)
\* The number the digits spell in the base.
ReadInBase(digits, base, acc) ==
    IF digits = <<>> THEN acc
    ELSE ReadInBase(Tail(digits), base, acc * base + DigitIn(Head(digits), base))

ValueOfBody(body, b) ==
    IF body # <<>> /\ Head(body) = "-" THEN -ReadInBase(Unsigned(body), BaseNumber(b), 0)
    ELSE ReadInBase(body, BaseNumber(b), 0)

(* C26: parseImmediate on $i<b><body>, b one of d, x, b, o, returns an      *)
(* Integer tagged with base b whose value is the body read in that base     *)
(* (with an optional leading '-'), and returns no value when the body is    *)
(* empty or holds a character outside the digits of the base; the float     *)
(* prefix $f is accepted only with base d.                                  *)
C26_ParseImmediate ==
    outcome # <<>> =>
        /\ IsIntegerForm =>
              LET b    == input[3]
                  body == SubSeq(input, 4, Len(input))
              IN  IF WellFormedBody(body, b)
                  THEN outcome[1] = ImmediateValue("Integer", BaseName(b),
                                                   ValueOfBody(body, b), <<>>)
                  ELSE outcome[1] = NoImmediate
        /\ (Len(input) >= 3 /\ input[1] = "$" /\ input[2] = "f"
            /\ outcome[1].format # "None") => input[3] = "d"

\* The same for well-formed bodies only.
WellFormedImmediateRead ==
    (outcome # <<>> /\ IsIntegerForm
     /\ WellFormedBody(SubSeq(input, 4, Len(input)), input[3])) =>
        outcome[1] = ImmediateValue("Integer", BaseName(input[3]),
                                    ValueOfBody(SubSeq(input, 4, Len(input)), input[3]),
                                    <<>>)

-----------------------------------------------------------------------------
\* A register name: r and decimal digits.
IsRegisterName(chars) ==
    /\ Len(chars) >= 2
    /\ chars[1] = "r"
    /\ \A i \in 2..Len(chars) : DigitValue(chars[i]) >= 0

IsDecimal(chars) == chars # <<>> /\ \A i \in DOMAIN chars : DigitValue(chars[i]) >= 0

\* The reference a memory operand text spells, if it has one of the forms
\* [%reg], [%reg+N], [%reg-N].
SpelledReference(str) ==
    LET inner == SubSeq(str, 3, Len(str) - 1)
        signAt == {i \in DOMAIN inner : inner[i] \in {"+", "-"}}
        cut   == IF signAt = {} THEN Len(inner) + 1
                 ELSE CHOOSE i \in signAt : \A j \in signAt : i <= j
        reg   == SubSeq(inner, 1, cut - 1)
        digs  == SubSeq(inner, cut + 1, Len(inner))
    IN  IF Len(str) >= 3 /\ str[1] = "[" /\ str[2] = "%" /\ str[Len(str)] = "]"
           /\ IsRegisterName(reg) /\ (cut > Len(inner) \/ IsDecimal(digs))
        THEN MemoryReference(reg,
                 IF cut > Len(inner) THEN 0
                 ELSE IF inner[cut] = "-" THEN -ReadInBase(digs, 10, 0)
                 ELSE ReadInBase(digs, 10, 0))
        ELSE NoMemoryReference

(* C27: parseMemoryRef returns (reg, offset) exactly for the texts [%reg],  *)
(* [%reg+N] and [%reg-N], reg being r and decimal digits and N decimal,     *)
(* with offset 0, N and -N; for every other text it returns no value.       *)
C27_ParseMemoryRef ==
    outcome # <<>> => outcome[1] = SpelledReference(input)

\* The same for the texts of the three forms only.
WellFormedReferenceRead ==
    (outcome # <<>> /\ SpelledReference(input).ok) =>
        outcome[1] = SpelledReference(input)

-----------------------------------------------------------------------------
(* C30: Parser::parseLine never reads the token vector at an index >= its   *)
(* size: for every line, also one that ends inside an operand (after [,     *)
(* [r2 or [r2+), it returns Success or an error Result, and every token it  *)
(* reads while parsing or reporting lies inside the vector.                 *)
C30_TokenReadsInRange ==
    outcome # <<>> =>
        /\ ~outcome[1].oob
        /\ outcome[1].result \in {"Success", "InvalidFormat"}

\* The same for lines whose memory operands are complete.
CompleteLinesReadInRange ==
    (outcome # <<>> /\ outcome[1].result = "Success") => ~outcome[1].oob

\* The calls made on the CodeGenerator began with initialize, every
\* generateLine among them returned Success, and the last one is finalize.
FinalizedAfterSuccess ==
    /\ Len(outcome) >= 2
    /\ outcome[1] = Returned("initialize", "Success")
    /\ outcome[Len(outcome)].call = "finalize"
    /\ \A i \in DOMAIN outcome :
          outcome[i].call = "generateLine" => outcome[i].result = "Success"

\* C28: after initialize(), for any sequence of lines for which every
\* generateLine returned Success, instructions whose operand is a label no
\* line defines among them, finalize() returns Success.
C28_FinalizeSucceeds ==
    FinalizedAfterSuccess => outcome[Len(outcome)].result = "Success"


====
